---- MODULE Spec2Model ----
(***************************************************************************)
(* Verification model of the claude-code-api gateway: the session table of *)
(* ClaudeManager (src/claude/manager.rs), the completion flow of           *)
(* create_chat_completion (src/routes/chat.rs), the message translator     *)
(* (src/claude/parser.rs), the tool-call decoder (src/tools.rs) and the    *)
(* SSE emitter (src/streaming.rs).                                         *)
(*                                                                         *)
(* The specifications share the variables:                                 *)
(*   SpecMgr       concurrent callers of the ClaudeManager operations      *)
(*   SpecMgrFair   the same, with waiting callers and fair scheduling      *)
(*   SpecMgrDrain  the same, with cleanup_all taken entry by entry         *)
(*   SpecMgrLock   the same, with the operations that read the table       *)
(*   SpecFlow      one completion request driven end to end                *)
(*   SpecFlowFair  the same, with the completion polled when it can go on  *)
(*   SpecPersist   the same, with persistence calls that may fail          *)
(*   SpecMain      the same, in a gateway that is told to shut down        *)
(*   SpecProc      the reader task of one backend process                  *)
(*   SpecProcFair  the same, with the reader task polled                   *)
(*   SpecProcReap  the same, under a consumer that calls session_finished  *)
(*   SpecLiveGone  the same, under a streaming task whose client may leave *)
(*   SpecWrap      wrap_response_as_sse applied to bounded responses       *)
(*   SpecTools     parse_tool_calls applied to bounded texts               *)
(*   SpecModel     validate_claude_model applied to bounded names          *)
(*   SpecUsage     the usage fields of a buffered response                 *)
(*   SpecEvents    one turn of the event loop on a bounded event           *)
(*   SpecLimiter   RateLimiter::check (src/auth.rs) on two keys            *)
(***************************************************************************)
EXTENDS Integers, Sequences, FiniteSets, TLC

None == "none"

(***************************************************************************)
(* Bounds of the model.                                                    *)
(***************************************************************************)
\* number of backend processes spawned in one behaviour
MaxProcs == 2
\* configured ceiling (Config::max_concurrent_sessions), kept small
max_concurrent == 1

\* lines one backend process writes in one behaviour
MaxLines == 3
\* tool calls of a response given to wrap_response_as_sse
MaxCalls == 2
\* process.rs:108  tokio::sync::mpsc::channel::<serde_json::Value>(64)
ChanCap == 64

\* concurrent tasks calling into the manager
Callers == {"t1", "t2"}
NoCaller == "nobody"
Pids == 1..MaxProcs

\* session ids a client may put in a request, native ids a backend may report
ClientIds == {"c1", "c2"}
NativeIds == {"n1"}
Keys == ClientIds \cup NativeIds

VARIABLES
    \* ---- ClaudeManager (manager.rs) ----
    active,      \* HashMap<String, ClaudeProcess>: key -> pid
    writer,      \* holder of the RwLock write guard (NoCaller: free)
    nextPid,     \* next process to be spawned
    procClient,  \* pid -> session_id argument of its create_session
    procNative,  \* pid -> native session id spawn returned (None: absent)
    exited,      \* processes that have exited (naturally or killed)
    killed,      \* processes ClaudeProcess::kill was called on
    reaped,      \* processes ClaudeProcess::reap was called on
    inserted,    \* processes ever inserted into the table
    removed,     \* processes taken out by remove() or drain()
    pc,          \* caller -> position inside the operation it runs
    arg,         \* caller -> session id argument of the running operation
    held,        \* caller -> process handle it holds (0: none)
    result,      \* caller -> outcome of its last finished operation
    overlapped,  \* history: two create_session calls were in flight at once
    collided,    \* history: an insert found its key already in the table
    \* ---- one completion request (chat.rs, process.rs) ----
    request,     \* the ChatCompletionRequest: stream, tools, session_id
    others,      \* sessions of other requests tracked when this one arrives
    fpc,         \* position of the handler create_chat_completion
    tpc,         \* position of the streaming task (chat.rs:211-259)
    backend,     \* the backend process: none, running, exited, killed
    nlines,      \* lines the backend has written
    reader,      \* the reader task of process.rs:124-144: none, running, done
    chan,        \* events in the mpsc channel behind claude_stream
    claude_session_id, \* Option: native session id spawn returned
    entry,       \* Option: key under which the process is tracked
    release,     \* what session_finished did: pending, reaping, reaped, noop
    received,    \* history: events the event loop took from claude_stream
    sent,        \* SSE events handed to the client, in order
    content_parts, \* texts accumulated by the buffered loop
    usage,       \* Option: usage captured from the result event
    response,    \* Option: the ChatCompletionResponse (or the error)
    shape,       \* shape of the HTTP response: none, error, json, sse_live, sse_replay
    \* ---- wrap_response_as_sse applied to a response (streaming.rs) ----
    wrapResp,    \* Option: the response value given to it
    wrapEvents,  \* Option: the events it returned
    \* ---- parse_tool_calls applied to a text (tools.rs) ----
    toolParts,   \* the pieces (free text, fenced blocks) the text is made of
    toolResult,  \* Option: the pair parse_tool_calls returned
    \* ---- one ClaudeProcess and its consumer (process.rs) ----
    written,     \* history: lines the backend wrote and the driver read
    pending,     \* Option: event the reader task is sending (tx.send(val).await)
    consumer,    \* the holder of the stream: none, open, dropped
    \* ---- validate_claude_model applied to a name (models/claude.rs) ----
    modelName,   \* the requested model name, a sequence of characters
    modelResult, \* Option: the name validate_claude_model returned
    \* ---- the usage of a buffered response (chat.rs:281-299, 346-350) ----
    usageEvents, \* the events the buffered loop is given
    usageResult, \* Option: the usage of the response, or the panic
    \* ---- the persistence collaborator (db.rs) ----
    dbDown,      \* the kinds of call that fail in this behaviour
    persisted,   \* the kinds of call that have stored something
    \* ---- the gateway process and the client of the request (main.rs) ----
    draining,    \* history: processes tracked when cleanup_all took the guard
    gateway,     \* serving, draining (shutdown signal received) or exited
    client,      \* connected, or gone: the client closed the connection
    \* ---- read guards of the session table (manager.rs) ----
    readers,     \* callers that hold a read guard of the RwLock
    \* ---- RateLimiter (auth.rs) ----
    limiter,     \* the clock, the windows per key, and what check has answered
    \* ---- the program of the backend process ----
    plan         \* lines the backend writes before it exits (0: not fixed)

mgrVars == <<active, writer, nextPid, procClient, procNative, exited, killed,
             reaped, inserted, removed, pc, arg, held, result, overlapped,
             collided>>

flowVars == <<request, others, fpc, tpc, backend, nlines, reader, chan,
              claude_session_id, entry, release, received, sent, content_parts,
              usage, response, shape>>

wrapVars == <<wrapResp, wrapEvents>>

toolVars == <<toolParts, toolResult>>

modelVars == <<modelName, modelResult>>

\* the variables of the functions applied on their own
usageVars == <<usageEvents, usageResult>>

\* the variables of the functions applied on their own
pureVars == <<wrapVars, toolVars, modelVars, usageVars>>

procVars == <<written, pending, consumer>>

\* what surrounds the manager and the handler
sideVars == <<dbDown, persisted, draining, gateway, client, readers, limiter,
              plan>>

vars == <<mgrVars, flowVars, pureVars, procVars, sideVars>>

(***************************************************************************)
(* Values.  An Option<T> is a sequence of length 0 (None) or 1 (Some(x)).  *)
(* A text is a sequence of tokens: a letter, a blank " ", a newline "\n",  *)
(* and, for the tool-call convention, OPEN (the opening fence              *)
(* ```tool_call, optional blanks and its newline), CLOSE (a newline and    *)
(* the closing fence ```), and block bodies: JN (a JSON object with a      *)
(* "name"), JA (the same with another name), JU (valid JSON without a      *)
(* name) and BAD (not JSON).                                               *)
(***************************************************************************)
Absent == <<>>
Some(x) == <<x>>
IsSome(o) == Len(o) = 1
Get(o) == o[1]

IsWs(c) == c \in {" ", "\n"}

RECURSIVE TrimStart(_)
TrimStart(s) ==
    IF s = <<>> THEN <<>>
    ELSE IF IsWs(Head(s)) THEN TrimStart(Tail(s)) ELSE s

RECURSIVE TrimEnd(_)
TrimEnd(s) ==
    IF s = <<>> THEN <<>>
    ELSE IF IsWs(s[Len(s)]) THEN TrimEnd(SubSeq(s, 1, Len(s) - 1)) ELSE s

\* str::trim
Trim(s) == TrimEnd(TrimStart(s))

\* [T]::join(sep) for texts
RECURSIVE Join(_, _)
Join(parts, sep) ==
    IF parts = <<>> THEN <<>>
    ELSE IF Len(parts) = 1 THEN parts[1]
    ELSE parts[1] \o sep \o Join(Tail(parts), sep)

RECURSIVE SelectTexts(_)
\* parser.rs:22-31: the text of every block whose type is "text"
SelectTexts(arr) ==
    IF arr = <<>> THEN <<>>
    ELSE IF arr[1].type = "text" /\ IsSome(arr[1].text)
         THEN <<Get(arr[1].text)>> \o SelectTexts(Tail(arr))
         ELSE SelectTexts(Tail(arr))

(***************************************************************************)
(* Message Translator (parser.rs).  A decoded event is a record            *)
(*   type     Option<string>   the "type" field                            *)
(*   sid      Option<string>   the "session_id" field                      *)
(*   content  Option<value>    message.content: [kind |-> "str", v |-> t], *)
(*                             [kind |-> "arr", v |-> blocks] or           *)
(*                             [kind |-> "other"]                          *)
(*   usage    Option<record>   the "usage" field: input_tokens and         *)
(*                             output_tokens, each an Option<u64> that is  *)
(*                             absent when the field is missing or is not  *)
(*                             an unsigned integer (as_u64 gives None)     *)
(* An unsigned integer is the sequence of its 16-bit limbs, the most       *)
(* significant first: three limbs h, m, l for a u64 (h is its upper 32     *)
(* bits, kept below 2^16 here) and two limbs m, l for a u32.               *)
(***************************************************************************)
\* 2^16: a u32 (parser.rs:59-60, chat.rs:281-282) is two limbs of this size
Limb == 65536

Zero64 == <<0, 0, 0>>

Zero32 == <<0, 0>>

\* parser.rs:71,75  `as u32`: the low 32 bits
AsU32(v) == <<v[2], v[3]>>

\* parser.rs:68-71: .and_then(|v| v.as_u64()).unwrap_or(0) as u32
TokenField(f) == AsU32(IF IsSome(f) THEN Get(f) ELSE Zero64)

\* chat.rs:349  usage_input + usage_output on u32: the wrapped sum, and
\* whether the addition overflows
AddU32(a, b) ==
    LET l == a[2] + b[2]
        m == a[1] + b[1] + (IF l >= Limb THEN 1 ELSE 0)
    IN  [value |-> <<m % Limb, l % Limb>>, overflow |-> m >= Limb]

\* parser.rs:8-41
extract_assistant_content(msg) ==
    IF ~IsSome(msg.content) THEN Absent
    ELSE LET content == Get(msg.content)
         IN  CASE content.kind = "str" ->
                    IF Trim(content.v) = <<>> THEN Absent ELSE Some(Trim(content.v))
               [] content.kind = "arr" ->
                    LET joined == Join(SelectTexts(content.v), <<"\n">>)
                    IN  IF Trim(joined) = <<>> THEN Absent ELSE Some(joined)
               [] OTHER -> Absent

\* parser.rs:44-50
is_assistant_message(msg) ==
    msg.type = Some("assistant") /\ IsSome(msg.content)

\* parser.rs:53-55
is_result_message(msg) == msg.type = Some("result")

\* parser.rs:65-78
extract_usage(msg) ==
    IF ~IsSome(msg.usage) THEN Absent
    ELSE Some([input_tokens |-> TokenField(Get(msg.usage).input_tokens),
               output_tokens |-> TokenField(Get(msg.usage).output_tokens)])

(***************************************************************************)
(* Tool-call decoder (tools.rs)                                            *)
(***************************************************************************)
\* position of the first token tok at or after position i, 0 if there is none
RECURSIVE FindFrom(_, _, _)
FindFrom(text, tok, i) ==
    IF i > Len(text) THEN 0
    ELSE IF text[i] = tok THEN i ELSE FindFrom(text, tok, i + 1)

\* tools.rs:71-72,79: the non-overlapping leftmost matches of
\* (?s)```tool_call\s*\n(.*?)\n```, each as <<first, last>> token positions
RECURSIVE MatchesFrom(_, _)
MatchesFrom(text, i) ==
    LET o == FindFrom(text, "OPEN", i)
        c == IF o = 0 THEN 0 ELSE FindFrom(text, "CLOSE", o + 1)
    IN  IF o = 0 \/ c = 0 THEN <<>>
        ELSE <<<<o, c>>>> \o MatchesFrom(text, c + 1)

Matches(text) == MatchesFrom(text, 1)

\* tools.rs:86-102: the function call a block body holds, if the body is
\* valid JSON with a string "name"; arguments default to "{}" when absent
BodyCall(raw) ==
    CASE Trim(raw) = <<"JN">> ->
             Some([name |-> "get_weather", arguments |-> "{\"city\":\"Paris\"}"])
      [] Trim(raw) = <<"JA">> -> Some([name |-> "search", arguments |-> "{}"])
      [] OTHER -> Absent

RECURSIVE CollectCallsAbort(_, _)
CollectCallsAbort(text, ms) ==
    IF ms = <<>> THEN <<>>
    ELSE LET m == ms[1]
             call == BodyCall(SubSeq(text, m[1] + 1, m[2] - 1))
         IN  IF IsSome(call)
             THEN <<[id |-> m[1], type |-> "function", function |-> Get(call)]>>
                      \o CollectCallsAbort(text, Tail(ms))
             ELSE <<>>

\* tools.rs:84-112: one ToolCall per accepted block, in document order; the
\* id is fresh for every call (tools.rs:125-127), here the block's position
RECURSIVE CollectCalls(_, _)
CollectCalls(text, ms) ==
    IF ms = <<>> THEN <<>>
    ELSE LET m == ms[1]
             call == BodyCall(SubSeq(text, m[1] + 1, m[2] - 1))
         IN  IF IsSome(call)
             THEN <<[id |-> m[1], type |-> "function", function |-> Get(call)]>>
                      \o CollectCalls(text, Tail(ms))
             ELSE CollectCalls(text, Tail(ms))

RECURSIVE RemoveAcceptedOnly(_, _, _)
RemoveAcceptedOnly(text, ms, i) ==
    IF ms = <<>> THEN SubSeq(text, i, Len(text))
    ELSE IF IsSome(BodyCall(SubSeq(text, ms[1][1] + 1, ms[1][2] - 1)))
         THEN SubSeq(text, i, ms[1][1] - 1)
                  \o RemoveAcceptedOnly(text, Tail(ms), ms[1][2] + 1)
         ELSE SubSeq(text, i, ms[1][2])
                  \o RemoveAcceptedOnly(text, Tail(ms), ms[1][2] + 1)

\* tools.rs:118-119: replace_all(text, "")
RECURSIVE RemoveMatches(_, _, _)
RemoveMatches(text, ms, i) ==
    IF ms = <<>> THEN SubSeq(text, i, Len(text))
    ELSE SubSeq(text, i, ms[1][1] - 1) \o RemoveMatches(text, Tail(ms), ms[1][2] + 1)

ParseAlwaysCleans(text) ==
    LET ms == Matches(text)
        tool_calls == CollectCalls(text, ms)
    IN  <<IF tool_calls = <<>> THEN Absent ELSE Some(tool_calls),
          Trim(RemoveMatches(text, ms, 1))>>

\* tools.rs:78-123: <<Option<Vec<ToolCall>>, String>>
parse_tool_calls(text) ==
    LET ms == Matches(text)
        tool_calls == CollectCalls(text, ms)
    IN  IF ms = <<>> THEN <<Absent, text>>
        ELSE IF tool_calls = <<>> THEN <<Absent, text>>
        ELSE <<Some(tool_calls), Trim(RemoveMatches(text, ms, 1))>>

(***************************************************************************)
(* ClaudeManager                                                           *)
(***************************************************************************)
Tracked == {k \in Keys : active[k] # 0}

\* the processes whose handles the table holds
TrackedPids == {active[k] : k \in Tracked}

\* manager.rs:48  self.active.read().await.len()
ActiveCount == Cardinality(Tracked)

CapacityReachedOffByOne(count) == count > max_concurrent

CapacityNeverReached(count) == FALSE

\* manager.rs:49  if count >= self.max_concurrent
CapacityReached(count) == count >= max_concurrent

\* manager.rs:66-68  claude_sid.clone().unwrap_or_else(|| session_id.to_string())
EffectiveKey(claude_sid, session_id) ==
    IF claude_sid # None THEN claude_sid ELSE session_id

\* tokio::sync::RwLock: the write guard is granted when nobody holds a guard,
\* a read guard when nobody holds the write guard
WriteFree == writer = NoCaller /\ readers = {}

InCreate(r) == pc[r] \in {"create_spawn", "create_insert"}

\* the operation returns res to its caller
Finish(r, res) ==
    /\ pc' = [pc EXCEPT ![r] = "done"]
    /\ arg' = [arg EXCEPT ![r] = None]
    /\ held' = [held EXCEPT ![r] = 0]
    /\ result' = [result EXCEPT ![r] = res]

MgrStart ==
    /\ active = [k \in Keys |-> 0]
    /\ writer = NoCaller
    /\ nextPid = 1
    /\ procClient = [p \in Pids |-> None]
    /\ procNative = [p \in Pids |-> None]
    /\ exited = {}
    /\ killed = {}
    /\ reaped = {}
    /\ inserted = {}
    /\ removed = {}
    /\ pc = [r \in Callers |-> "idle"]
    /\ arg = [r \in Callers |-> None]
    /\ held = [r \in Callers |-> 0]
    /\ result = [r \in Callers |-> None]
    /\ overlapped = FALSE
    /\ collided = FALSE

\* manager.rs:48-54: the capacity check under the read guard, which is a
\* temporary of the let statement and is released at its end.
CreateCheck(r, session_id) ==
    /\ pc[r] = "idle"
    /\ writer = NoCaller
    /\ overlapped' = (overlapped \/ \E q \in Callers \ {r} : InCreate(q))
    /\ IF CapacityReached(ActiveCount)
       THEN Finish(r, "ServiceUnavailable:capacity")
       ELSE /\ pc' = [pc EXCEPT ![r] = "create_spawn"]
            /\ arg' = [arg EXCEPT ![r] = session_id]
            /\ UNCHANGED <<held, result>>
    /\ UNCHANGED <<active, writer, nextPid, procClient, procNative, exited,
                   killed, reaped, inserted, removed, collided>>
    /\ UNCHANGED <<flowVars, pureVars, procVars, sideVars>>

SpawnErrorUnavailable(outcome) == "ServiceUnavailable:spawn"

\* process.rs:86-102: the error spawn returns, as kind:cause
SpawnError(outcome) ==
    CASE outcome = "spawn_failed" -> "ServiceUnavailable:spawn"
      [] outcome = "stdin_write_failed" -> "Internal:stdin"
      [] outcome = "stdout_not_captured" -> "Internal:stdout"

\* manager.rs:56-64 with process.rs:86-102: ClaudeProcess::spawn(...).await?
\* outcome is the backend's: the spawn fails, the stdin write or the stdout
\* capture fails, or a process runs and reports a native session id or none.
CreateSpawn(r, outcome, claude_sid) ==
    /\ pc[r] = "create_spawn"
    /\ IF outcome = "ok"
       THEN /\ nextPid <= MaxProcs
            /\ held' = [held EXCEPT ![r] = nextPid]
            /\ procClient' = [procClient EXCEPT ![nextPid] = arg[r]]
            /\ procNative' = [procNative EXCEPT ![nextPid] = claude_sid]
            /\ nextPid' = nextPid + 1
            /\ pc' = [pc EXCEPT ![r] = "create_insert"]
            /\ UNCHANGED <<arg, result>>
       ELSE /\ claude_sid = None
            /\ Finish(r, SpawnError(outcome))
            /\ UNCHANGED <<procClient, procNative, nextPid>>
    /\ UNCHANGED <<active, writer, exited, killed, reaped, inserted, removed,
                   overlapped, collided>>
    /\ UNCHANGED <<flowVars, pureVars, procVars, sideVars>>

\* manager.rs:66-71: key selection and insert under the write guard; an entry
\* already stored under the key is replaced and its handle dropped.
CreateInsert(r) ==
    /\ pc[r] = "create_insert"
    /\ WriteFree
    /\ LET p == held[r]
           key == EffectiveKey(procNative[p], arg[r])
       IN  /\ active' = [active EXCEPT ![key] = p]
           /\ inserted' = inserted \cup {p}
           /\ collided' = (collided \/ active[key] # 0)
    /\ Finish(r, "Ok")
    /\ UNCHANGED <<writer, nextPid, procClient, procNative, exited, killed,
                   reaped, removed, overlapped>>
    /\ UNCHANGED <<flowVars, pureVars, procVars, sideVars>>

StopRemoveNotFound(r, session_id) ==
    /\ pc[r] = "idle"
    /\ WriteFree
    /\ IF active[session_id] # 0
       THEN /\ active' = [active EXCEPT ![session_id] = 0]
            /\ removed' = removed \cup {active[session_id]}
            /\ held' = [held EXCEPT ![r] = active[session_id]]
            /\ writer' = r
            /\ pc' = [pc EXCEPT ![r] = "stop_kill"]
            /\ UNCHANGED <<arg, result>>
       ELSE /\ Finish(r, "NotFound")
            /\ UNCHANGED <<active, removed, writer>>
    /\ UNCHANGED <<nextPid, procClient, procNative, exited, killed, reaped,
                   inserted, overlapped, collided>>
    /\ UNCHANGED <<flowVars, pureVars, procVars, sideVars>>

\* manager.rs:75-80 with chat.rs:426-436.
\* self.active.write().await.remove(session_id): the write guard is a
\* temporary of the if-let scrutinee and lives through the body of the if-let.
\* stop_completion answers "stopped" whatever stop_session found.
StopRemove(r, session_id) ==
    /\ pc[r] = "idle"
    /\ WriteFree
    /\ IF active[session_id] # 0
       THEN /\ active' = [active EXCEPT ![session_id] = 0]
            /\ removed' = removed \cup {active[session_id]}
            /\ held' = [held EXCEPT ![r] = active[session_id]]
            /\ writer' = r
            /\ pc' = [pc EXCEPT ![r] = "stop_kill"]
            /\ UNCHANGED <<arg, result>>
       ELSE /\ Finish(r, "stopped")
            /\ UNCHANGED <<active, removed, writer>>
    /\ UNCHANGED <<nextPid, procClient, procNative, exited, killed, reaped,
                   inserted, overlapped, collided>>
    /\ UNCHANGED <<flowVars, pureVars, procVars, sideVars>>

\* manager.rs:77 with process.rs:159-161: process.kill().await
StopKill(r) ==
    /\ pc[r] = "stop_kill"
    /\ killed' = killed \cup {held[r]}
    /\ exited' = exited \cup {held[r]}
    /\ writer' = NoCaller
    /\ Finish(r, "stopped")
    /\ UNCHANGED <<active, nextPid, procClient, procNative, reaped, inserted,
                   removed, overlapped, collided>>
    /\ UNCHANGED <<flowVars, pureVars, procVars, sideVars>>

\* manager.rs:83-84: session_finished is called while another task holds the
\* write guard and suspends at self.active.write().await until it is granted
FinishCall(r, session_id) ==
    /\ pc[r] = "idle"
    /\ ~WriteFree
    /\ pc' = [pc EXCEPT ![r] = "finish_wait"]
    /\ arg' = [arg EXCEPT ![r] = session_id]
    /\ UNCHANGED <<active, writer, nextPid, procClient, procNative, exited,
                   killed, reaped, inserted, removed, held, result, overlapped,
                   collided>>
    /\ UNCHANGED <<flowVars, pureVars, procVars, sideVars>>

\* manager.rs:84: the same removal under the write guard, granted at once
\* to a call that finds it free or later to a suspended one
FinishRemove(r, session_id) ==
    /\ \/ pc[r] = "idle"
       \/ pc[r] = "finish_wait" /\ arg[r] = session_id
    /\ WriteFree
    /\ IF active[session_id] # 0
       THEN /\ active' = [active EXCEPT ![session_id] = 0]
            /\ removed' = removed \cup {active[session_id]}
            /\ held' = [held EXCEPT ![r] = active[session_id]]
            /\ writer' = r
            /\ pc' = [pc EXCEPT ![r] = "finish_reap"]
            /\ arg' = [arg EXCEPT ![r] = None]
            /\ UNCHANGED result
       ELSE /\ Finish(r, "finished")
            /\ UNCHANGED <<active, removed, writer>>
    /\ UNCHANGED <<nextPid, procClient, procNative, exited, killed, reaped,
                   inserted, overlapped, collided>>
    /\ UNCHANGED <<flowVars, pureVars, procVars, sideVars>>

\* manager.rs:85: process.reap().await returns once the child has exited on
\* its own; it does not terminate it.
FinishReap(r) ==
    /\ pc[r] = "finish_reap"
    /\ held[r] \in exited
    /\ reaped' = reaped \cup {held[r]}
    /\ writer' = NoCaller
    /\ Finish(r, "finished")
    /\ UNCHANGED <<active, nextPid, procClient, procNative, exited, killed,
                   inserted, removed, overlapped, collided>>
    /\ UNCHANGED <<flowVars, pureVars, procVars, sideVars>>

\* manager.rs:100-106: drain the table and kill every process, all under one
\* write guard.
CleanupAll(r) ==
    /\ pc[r] = "idle"
    /\ WriteFree
    /\ LET ps == {active[k] : k \in Tracked}
       IN  /\ killed' = killed \cup ps
           /\ exited' = exited \cup ps
           /\ removed' = removed \cup ps
    /\ active' = [k \in Keys |-> 0]
    /\ Finish(r, "cleaned")
    /\ UNCHANGED <<writer, nextPid, procClient, procNative, reaped, inserted,
                   overlapped, collided>>
    /\ UNCHANGED <<flowVars, pureVars, procVars, sideVars>>

CleanupLockNoGuard(r) ==
    /\ pc[r] = "idle"
    /\ WriteFree
    /\ draining' = TrackedPids
    /\ pc' = [pc EXCEPT ![r] = "cleanup_drain"]
    /\ UNCHANGED <<active, writer, nextPid, procClient, procNative, exited,
                   killed, reaped, inserted, removed, arg, held, result,
                   overlapped, collided>>
    /\ UNCHANGED <<flowVars, pureVars, procVars, dbDown, persisted, gateway,
                   client, readers, limiter, plan>>

\* manager.rs:101: let mut map = self.active.write().await; the guard is a
\* local of cleanup_all and lives until it returns
CleanupLock(r) ==
    /\ pc[r] = "idle"
    /\ WriteFree
    /\ writer' = r
    /\ draining' = TrackedPids
    /\ pc' = [pc EXCEPT ![r] = "cleanup_drain"]
    /\ UNCHANGED <<active, nextPid, procClient, procNative, exited, killed,
                   reaped, inserted, removed, arg, held, result, overlapped,
                   collided>>
    /\ UNCHANGED <<flowVars, pureVars, procVars, dbDown, persisted, gateway,
                   client, readers, limiter, plan>>

\* manager.rs:102-105: the drain iterator takes the next entry out of the
\* table, in no particular order, and the loop body awaits its kill
CleanupKill(r) ==
    /\ pc[r] = "cleanup_drain"
    /\ \E k \in Tracked :
           /\ active' = [active EXCEPT ![k] = 0]
           /\ removed' = removed \cup {active[k]}
           /\ killed' = killed \cup {active[k]}
           /\ exited' = exited \cup {active[k]}
    /\ UNCHANGED <<writer, nextPid, procClient, procNative, reaped, inserted,
                   pc, arg, held, result, overlapped, collided>>
    /\ UNCHANGED <<flowVars, pureVars, procVars, sideVars>>

\* manager.rs:102-106: the iterator is exhausted, the loop ends, and the
\* guard is dropped as cleanup_all returns
CleanupReturn(r) ==
    /\ pc[r] = "cleanup_drain"
    /\ Tracked = {}
    /\ writer' = IF writer = r THEN NoCaller ELSE writer
    /\ Finish(r, "cleaned")
    /\ UNCHANGED <<active, nextPid, procClient, procNative, exited, killed,
                   reaped, inserted, removed, overlapped, collided>>
    /\ UNCHANGED <<flowVars, pureVars, procVars, sideVars>>

ReadLockNoGuard(r) ==
    /\ pc[r] = "idle"
    /\ readers' = readers \cup {r}
    /\ pc' = [pc EXCEPT ![r] = "reading"]
    /\ UNCHANGED <<active, writer, nextPid, procClient, procNative, exited,
                   killed, reaped, inserted, removed, arg, held, result,
                   overlapped, collided>>
    /\ UNCHANGED <<flowVars, pureVars, procVars, dbDown, persisted, draining,
                   gateway, client, limiter, plan>>

\* manager.rs:90-97: active_count and active_session_ids take a read guard
\* with self.active.read().await
ReadLock(r) ==
    /\ pc[r] = "idle"
    /\ writer = NoCaller
    /\ readers' = readers \cup {r}
    /\ pc' = [pc EXCEPT ![r] = "reading"]
    /\ UNCHANGED <<active, writer, nextPid, procClient, procNative, exited,
                   killed, reaped, inserted, removed, arg, held, result,
                   overlapped, collided>>
    /\ UNCHANGED <<flowVars, pureVars, procVars, dbDown, persisted, draining,
                   gateway, client, limiter, plan>>

\* manager.rs:91, 96: the table is read and the guard, a temporary of the
\* expression, is dropped
ReadUnlock(r) ==
    /\ pc[r] = "reading"
    /\ readers' = readers \ {r}
    /\ Finish(r, "read")
    /\ UNCHANGED <<active, writer, nextPid, procClient, procNative, exited,
                   killed, reaped, inserted, removed, overlapped, collided>>
    /\ UNCHANGED <<flowVars, pureVars, procVars, dbDown, persisted, draining,
                   gateway, client, limiter, plan>>

\* the caller takes the result and is free to call again
Return(r) ==
    /\ pc[r] = "done"
    /\ pc' = [pc EXCEPT ![r] = "idle"]
    /\ result' = [result EXCEPT ![r] = None]
    /\ UNCHANGED <<active, writer, nextPid, procClient, procNative, exited,
                   killed, reaped, inserted, removed, arg, held, overlapped,
                   collided>>
    /\ UNCHANGED <<flowVars, pureVars, procVars, sideVars>>

\* the backend process ends on its own
ProcExit(p) ==
    /\ p < nextPid
    /\ p \notin exited
    /\ exited' = exited \cup {p}
    /\ UNCHANGED <<active, writer, nextPid, procClient, procNative, killed,
                   reaped, inserted, removed, pc, arg, held, result,
                   overlapped, collided>>
    /\ UNCHANGED <<flowVars, pureVars, procVars, sideVars>>

\* the request, its process and its response before the request arrives
FlowIdle ==
    /\ others = 0
    /\ fpc = "none"
    /\ tpc = "none"
    /\ backend = "none"
    /\ nlines = 0
    /\ reader = "none"
    /\ chan = <<>>
    /\ claude_session_id = Absent
    /\ entry = Absent
    /\ release = "pending"
    /\ received = <<>>
    /\ sent = <<>>
    /\ content_parts = <<>>
    /\ usage = Absent
    /\ response = Absent
    /\ shape = "none"

WrapIdle ==
    /\ wrapResp = Absent
    /\ wrapEvents = Absent

ToolIdle ==
    /\ toolParts = <<>>
    /\ toolResult = Absent

ModelIdle ==
    /\ modelName = <<>>
    /\ modelResult = Absent
    /\ usageEvents = <<>>
    /\ usageResult = Absent

\* a rate limiter that is not called
LimiterIdle == <<>>

\* a persistence collaborator that is not called, or whose calls all succeed
SideIdle ==
    /\ dbDown = {}
    /\ persisted = {}
    /\ draining = {}
    /\ gateway = "serving"
    /\ client = "connected"
    /\ readers = {}
    /\ limiter = LimiterIdle
    /\ plan = 0

\* no process driven on its own
ProcIdle ==
    /\ written = <<>>
    /\ pending = Absent
    /\ consumer = "none"

\* manager.rs:20-27: ClaudeManager::new, an empty table
InitMgr ==
    /\ MgrStart
    /\ ToolIdle
    /\ ModelIdle
    /\ SideIdle
    /\ ProcIdle
    /\ request = Absent
    /\ FlowIdle
    /\ WrapIdle

SpawnOutcomes == {"ok", "spawn_failed", "stdin_write_failed",
                  "stdout_not_captured"}

NextMgr ==
    \/ \E r \in Callers, s \in ClientIds : CreateCheck(r, s)
    \/ \E r \in Callers, o \in SpawnOutcomes, n \in NativeIds \cup {None} :
           CreateSpawn(r, o, n)
    \/ \E r \in Callers : CreateInsert(r)
    \/ \E r \in Callers, k \in Keys : StopRemove(r, k)
    \/ \E r \in Callers : StopKill(r)
    \/ \E r \in Callers, k \in Keys : FinishRemove(r, k)
    \/ \E r \in Callers : FinishReap(r)
    \/ \E r \in Callers : CleanupAll(r)
    \/ \E r \in Callers : Return(r)
    \/ \E p \in Pids : ProcExit(p)

SpecMgr == InitMgr /\ [][NextMgr]_vars

\* the same, with session_finished calls that arrive while the write guard is
\* taken and wait for it
NextMgrWait ==
    \/ NextMgr
    \/ \E r \in Callers, k \in Keys : FinishCall(r, k)

\* the manager with cleanup_all taken entry by entry, as its loop runs, and
\* with session_finished calls that wait for the guard
NextMgrDrain ==
    \/ \E r \in Callers, s \in ClientIds : CreateCheck(r, s)
    \/ \E r \in Callers, o \in SpawnOutcomes, n \in NativeIds \cup {None} :
           CreateSpawn(r, o, n)
    \/ \E r \in Callers : CreateInsert(r)
    \/ \E r \in Callers, k \in Keys : StopRemove(r, k)
    \/ \E r \in Callers : StopKill(r)
    \/ \E r \in Callers, k \in Keys : FinishCall(r, k)
    \/ \E r \in Callers, k \in Keys : FinishRemove(r, k)
    \/ \E r \in Callers : FinishReap(r)
    \/ \E r \in Callers : CleanupLock(r)
    \/ \E r \in Callers : CleanupKill(r)
    \/ \E r \in Callers : CleanupReturn(r)
    \/ \E r \in Callers : Return(r)
    \/ \E p \in Pids : ProcExit(p)

SpecMgrDrain == InitMgr /\ [][NextMgrDrain]_vars

\* the manager with cleanup_all taken entry by entry and with the reading
\* operations, which hold their guard from one step to the next
NextMgrLock ==
    \/ \E r \in Callers, s \in ClientIds : CreateCheck(r, s)
    \/ \E r \in Callers, o \in SpawnOutcomes, n \in NativeIds \cup {None} :
           CreateSpawn(r, o, n)
    \/ \E r \in Callers : CreateInsert(r)
    \/ \E r \in Callers, k \in Keys : StopRemove(r, k)
    \/ \E r \in Callers : StopKill(r)
    \/ \E r \in Callers, k \in Keys : FinishRemove(r, k)
    \/ \E r \in Callers : FinishReap(r)
    \/ \E r \in Callers : CleanupLock(r)
    \/ \E r \in Callers : CleanupKill(r)
    \/ \E r \in Callers : CleanupReturn(r)
    \/ \E r \in Callers : ReadLock(r)
    \/ \E r \in Callers : ReadUnlock(r)
    \/ \E r \in Callers : Return(r)
    \/ \E p \in Pids : ProcExit(p)

SpecMgrLock == InitMgr /\ [][NextMgrLock]_vars

\* tokio's RwLock queues its waiters fairly, so a task waiting for the guard
\* gets it if it is free again and again; a task that holds the guard and can
\* go on does go on.  Nothing makes a backend process exit.
FairMgr ==
    \A r \in Callers :
        /\ SF_vars(CreateInsert(r))
        /\ SF_vars(\E k \in Keys : FinishRemove(r, k) /\ pc[r] = "finish_wait")
        /\ WF_vars(StopKill(r))
        /\ WF_vars(FinishReap(r))

SpecMgrFair == InitMgr /\ [][NextMgrWait]_vars /\ FairMgr

(***************************************************************************)
(* Model names (models/claude.rs).  A name is the sequence of its          *)
(* characters.                                                             *)
(***************************************************************************)
ClaudePrefix == <<"c", "l", "a", "u", "d", "e", "-">>

Sonnet45 == ClaudePrefix \o <<"s", "o", "n", "n", "e", "t", "-", "4", "-", "5", "-",
                              "2", "0", "2", "5", "0", "9", "2", "9">>

Haiku45 == ClaudePrefix \o <<"h", "a", "i", "k", "u", "-", "4", "-", "5", "-",
                             "2", "0", "2", "5", "1", "0", "0", "1">>

CcSonnet45 == <<"c", "c", "-", "s", "o", "n", "n", "e", "t", "-", "4", "5">>

CcHaiku45 == <<"c", "c", "-", "h", "a", "i", "k", "u", "-", "4", "5">>

\* claude.rs:2-5: the alias table, in its order
MODEL_ALIASES == << <<CcSonnet45, Sonnet45>>, <<CcHaiku45, Haiku45>> >>

\* str::starts_with
StartsWith(s, prefix) ==
    Len(s) >= Len(prefix) /\ SubSeq(s, 1, Len(prefix)) = prefix

validate_aliases_only(model) ==
    LET hits == {i \in 1..Len(MODEL_ALIASES) : MODEL_ALIASES[i][1] = model}
    IN  IF hits # {}
        THEN MODEL_ALIASES[CHOOSE i \in hits : \A j \in hits : i <= j][2]
        ELSE Sonnet45

\* claude.rs:9-25: the first alias that equals the name, else the name itself
\* if it starts with "claude-", else the default
validate_claude_model(model) ==
    LET hits == {i \in 1..Len(MODEL_ALIASES) : MODEL_ALIASES[i][1] = model}
    IN  IF hits # {}
        THEN MODEL_ALIASES[CHOOSE i \in hits : \A j \in hits : i <= j][2]
        ELSE IF StartsWith(model, ClaudePrefix) THEN model
        ELSE Sonnet45

(***************************************************************************)
(* Streaming Emitter (streaming.rs).  A chunk is the record of its delta   *)
(* and finish_reason; id, model and created are the same in every chunk of *)
(* a completion and are left out.  An SSE event is the "data: " frame      *)
(* around a chunk, or around the literal [DONE].                           *)
(***************************************************************************)
NoDelta == [role |-> Absent, content |-> Absent, tool_calls |-> Absent]

\* streaming.rs:4-9
sse_event(data) == [done |-> FALSE, data |-> Some(data)]

\* streaming.rs:12-14
sse_done == [done |-> TRUE, data |-> Absent]

\* streaming.rs:17-29
initial_chunk ==
    [delta |-> [NoDelta EXCEPT !.role = Some("assistant"), !.content = Some(<<>>)],
     finish_reason |-> Absent]

\* streaming.rs:32-49
content_chunk(content) ==
    [delta |-> [NoDelta EXCEPT !.content = Some(content)],
     finish_reason |-> Absent]

\* streaming.rs:52-69
final_chunk(finish_reason) ==
    [delta |-> NoDelta, finish_reason |-> Some(finish_reason)]

\* streaming.rs:89-95: the role chunk of the replay carries no content key
replay_role_chunk ==
    [delta |-> [NoDelta EXCEPT !.role = Some("assistant")],
     finish_reason |-> Absent]

\* streaming.rs:121-136: enumerate() counts from 0
tool_call_chunk(i, tc) ==
    [delta |-> [NoDelta EXCEPT !.tool_calls =
                    Some(<<[index |-> i, id |-> tc.id, type |-> "function",
                            function |-> tc.function]>>)],
     finish_reason |-> Absent]

ToolCallChunksFromOne(tcs) ==
    [i \in 1..Len(tcs) |-> sse_event(tool_call_chunk(i, tcs[i]))]

\* streaming.rs:119-138
ToolCallChunks(tcs) ==
    [i \in 1..Len(tcs) |-> sse_event(tool_call_chunk(i - 1, tcs[i]))]

\* streaming.rs:75-145.  response.choices is a sequence of choices, a choice
\* is [message |-> [content, tool_calls], finish_reason], all three Options.
wrap_response_as_sse(resp) ==
    LET role_open == <<sse_event(replay_role_chunk)>>
        body ==
          IF resp.choices = <<>> THEN <<>>
          ELSE LET choice == resp.choices[1]
                   content == choice.message.content
                   tool_calls == choice.message.tool_calls
                   finish_reason == IF IsSome(choice.finish_reason)
                                    THEN Get(choice.finish_reason) ELSE "stop"
               IN  (IF IsSome(content)
                    THEN <<sse_event(content_chunk(Get(content)))>> ELSE <<>>)
                   \o (IF IsSome(tool_calls)
                       THEN ToolCallChunks(Get(tool_calls)) ELSE <<>>)
                   \o <<sse_event(final_chunk(finish_reason))>>
    IN  role_open \o body \o <<sse_done>>

(***************************************************************************)
(* Process Driver (process.rs): lines of backend output and the events the *)
(* reader makes of them.                                                   *)
(***************************************************************************)
Event(type, sid, content, use) ==
    [type |-> type, sid |-> sid, content |-> content, usage |-> use,
     raw |-> Absent]

Str(t) == Some([kind |-> "str", v |-> t])
Arr(bs) == Some([kind |-> "arr", v |-> bs])
TextBlock(t) == [type |-> "text", text |-> Some(t)]
ImageBlock == [type |-> "image_url", text |-> Absent]

JsonLine(ev) == [kind |-> "json", val |-> Some(ev)]
BlankLine == [kind |-> "blank", val |-> Absent]
RawLine == [kind |-> "raw", val |-> Absent]

\* the lines a backend may write: its init event with a session id,
\* assistant events (string content with blanks around it, blank content,
\* content holding a well-formed tool_call block, content holding a malformed
\* one), a result event with usage, a blank line and a line that is not JSON
BackendLines ==
    { JsonLine(Event(Some("system"), Some("n1"), Absent, Absent)),
      JsonLine(Event(Some("assistant"), Absent, Str(<<" ", "h", "i", " ">>), Absent)),
      JsonLine(Event(Some("assistant"), Absent, Str(<<" ">>), Absent)),
      JsonLine(Event(Some("assistant"), Absent,
                     Str(<<"a", "OPEN", "JN", "CLOSE">>), Absent)),
      JsonLine(Event(Some("assistant"), Absent,
                     Str(<<"OPEN", "BAD", "CLOSE", "b">>), Absent)),
      JsonLine(Event(Some("result"), Absent, Absent,
                     Some([input_tokens |-> Some(<<0, 0, 5>>),
                           output_tokens |-> Some(<<0, 0, 2>>)]))),
      BlankLine,
      RawLine }

\* process.rs:137  json!({"type": "text", "content": line})
SyntheticText(line) ==
    [type |-> Some("text"), sid |-> Absent, content |-> Absent, usage |-> Absent,
     raw |-> Some(line.kind)]

\* process.rs:112-119: the first line, read inside spawn; it is forwarded
\* only if it parses as JSON
FirstLineEvents(line) ==
    IF line.kind = "json" THEN <<Get(line.val)>> ELSE <<>>

\* process.rs:113-116
FirstLineSessionId(line) ==
    IF line.kind = "json" THEN Get(line.val).sid ELSE Absent

\* process.rs:125-143: what the reader task sends for one later line
ReaderEvents(line) ==
    CASE line.kind = "blank" -> <<>>
      [] line.kind = "json" -> <<Get(line.val)>>
      [] OTHER -> <<SyntheticText(line)>>

(***************************************************************************)
(* Completion Flow Controller (chat.rs: create_chat_completion)            *)
(***************************************************************************)
\* message lists, each message given by its role: one that passes the
\* validation, and the empty one, one without a user message, one with only
\* an assistant message
MessageLists == {<<"system", "user">>, <<>>, <<"system">>, <<"assistant">>}

\* a request: stream is Option<bool>, tools is Option<Vec<Tool>>,
\* project_id is Option<String>
Requests ==
    [stream : {Absent, Some(TRUE), Some(FALSE)},
     tools : {Absent, Some(<<>>), Some(<<"get_weather">>)},
     session_id : {"c1"},
     project_id : {Absent, Some("p1")},
     messages : MessageLists]

ValidIfNonEmpty(req) == req.messages # <<>>

\* chat.rs:37-52: at least one message, and at least one of role "user"
Valid(req) ==
    /\ req.messages # <<>>
    /\ \E i \in 1..Len(req.messages) : req.messages[i] = "user"

Req == Get(request)

HasToolsWhenGiven(req) == IsSome(req.tools)

\* chat.rs:30  request.tools.as_ref().map_or(false, |t| !t.is_empty())
HasTools(req) == IsSome(req.tools) /\ Get(req.tools) # <<>>

WantsStreamByDefault(req) == IF IsSome(req.stream) THEN Get(req.stream) ELSE TRUE

\* chat.rs:31  request.stream.unwrap_or(false)
WantsStream(req) == IF IsSome(req.stream) THEN Get(req.stream) ELSE FALSE

\* chat.rs:32
DoStream(req) == WantsStream(req) /\ ~HasTools(req)

has_tools == HasTools(Req)
wants_stream == WantsStream(Req)
do_stream == DoStream(Req)

OrNone(o) == IF IsSome(o) THEN Get(o) ELSE None

\* chat.rs:148-151  request.project_id.clone().unwrap_or_else(|| "default")
ProjectId(req) == IF IsSome(req.project_id) THEN Get(req.project_id) ELSE "default"

project_id == ProjectId(Req)

\* chat.rs:186-188
effective_session_id == EffectiveKey(OrNone(claude_session_id), Req.session_id)

\* manager.rs:76, 84  active.remove(id) finds this completion's entry
TrackedAs(id) == IsSome(entry) /\ Get(entry) = id

\* the consumer still holds the receiving end of claude_stream: the handler
\* until it returns (chat.rs:279), the streaming task until it ends (chat.rs:220)
RxOpen ==
    IF do_stream THEN tpc # "end" ELSE fpc \in {"loop", "finish", "reap", "assemble"}

LoopNeverBreaks(msg) == FALSE

\* chat.rs:234,244 / chat.rs:291,297: a result event ends the event loop
LoopBreaks(msg) == is_result_message(msg)

EventTextAnyType(msg) == extract_assistant_content(msg)

\* chat.rs:222-223 / chat.rs:286-287: the text one event contributes
EventText(msg) ==
    IF is_assistant_message(msg) THEN extract_assistant_content(msg) ELSE Absent

\* chat.rs:292-296: usage_input / usage_output stay 0 without a usage field
CapturedUsage(msg, old) ==
    IF is_result_message(msg) /\ IsSome(extract_usage(msg))
    THEN extract_usage(msg) ELSE old

Fallback == <<"Hello! I'm Claude, ready to help.">>

\* chat.rs:306-310
CompleteContent(parts) ==
    IF parts = <<>> THEN Fallback ELSE Join(parts, <<"\n">>)

\* chat.rs:313-317
ParsedContent(req, complete_content) ==
    IF HasTools(req) THEN parse_tool_calls(complete_content)
    ELSE <<Absent, complete_content>>

ChoiceKeepsText(tool_calls, cleaned_text) ==
    IF IsSome(tool_calls)
    THEN [message |-> [content |-> Some(cleaned_text), tool_calls |-> tool_calls],
          finish_reason |-> Some("tool_calls")]
    ELSE [message |-> [content |-> Some(cleaned_text), tool_calls |-> Absent],
          finish_reason |-> Some("stop")]

\* chat.rs:319-324 with chat.rs:337-345: the one choice of the response
Choice(tool_calls, cleaned_text) ==
    IF IsSome(tool_calls)
    THEN [message |-> [content |-> Absent, tool_calls |-> tool_calls],
          finish_reason |-> Some("tool_calls")]
    ELSE [message |-> [content |-> Some(cleaned_text), tool_calls |-> Absent],
          finish_reason |-> Some("stop")]

\* chat.rs:281-282 with chat.rs:346-350: usage_input and usage_output start
\* at 0; the total is their u32 sum
ChatCompletionUsage(use) ==
    LET u == IF IsSome(use) THEN Get(use)
             ELSE [input_tokens |-> Zero32, output_tokens |-> Zero32]
    IN  [prompt_tokens |-> u.input_tokens,
         completion_tokens |-> u.output_tokens,
         total_tokens |-> AddU32(u.input_tokens, u.output_tokens).value]

\* chat.rs:349: the addition overflows the u32
UsageOverflows(use) ==
    IsSome(use) /\ AddU32(Get(use).input_tokens, Get(use).output_tokens).overflow

\* chat.rs:332-353
BuildResponse(req, parts, use, sid) ==
    LET parsed == ParsedContent(req, CompleteContent(parts))
    IN  [error |-> Absent,
         choices |-> <<Choice(parsed[1], parsed[2])>>,
         usage |-> ChatCompletionUsage(use),
         session_id |-> Some(sid),
         project_id |-> Some(ProjectId(req))]

\* chat.rs:181-184: every create_session error is wrapped as ServiceUnavailable
ErrorResponse(kind) ==
    [error |-> Some(kind), choices |-> <<>>,
     usage |-> ChatCompletionUsage(Absent),
     session_id |-> Absent,
     project_id |-> Absent]

\* the X-Session-ID and X-Project-ID headers of the HTTP response, by its
\* shape: chat.rs:265-274 (live SSE), chat.rs:381-389 (replayed SSE),
\* chat.rs:392 (Json(response), which sets neither); an error has neither
ResponseHeaders ==
    CASE shape = "sse_live" ->
             [x_session_id |-> Some(effective_session_id),
              x_project_id |-> Some(project_id)]
      [] shape = "sse_replay" ->
             [x_session_id |-> Some(effective_session_id),
              x_project_id |-> Absent]
      [] OTHER -> [x_session_id |-> Absent, x_project_id |-> Absent]

mgrUnused == <<active, writer, nextPid, procClient, procNative, exited, killed,
               reaped, inserted, removed, pc, arg, held, result, overlapped,
               collided>>

\* a request arrives at a gateway whose table is empty or at its ceiling
FlowStart ==
    /\ MgrStart
    /\ ToolIdle
    /\ ModelIdle
    /\ ProcIdle
    /\ WrapIdle
    /\ others \in {0, max_concurrent}
    /\ fpc = "start"
    /\ tpc = "none"
    /\ backend = "none"
    /\ nlines = 0
    /\ reader = "none"
    /\ chan = <<>>
    /\ claude_session_id = Absent
    /\ entry = Absent
    /\ release = "pending"
    /\ received = <<>>
    /\ sent = <<>>
    /\ content_parts = <<>>
    /\ usage = Absent
    /\ response = Absent
    /\ shape = "none"

\* any request, and a persistence collaborator whose calls succeed
InitFlow ==
    /\ FlowStart
    /\ SideIdle
    /\ request \in {Some(q) : q \in Requests}

\* the kinds of call made to the persistence collaborator: db::add_message
\* for the user message (chat.rs:195) and for the assistant message
\* (chat.rs:356), db::update_session_metrics (chat.rs:236, chat.rs:366)
DbCalls == {"user_message", "assistant_message", "session_metrics"}

\* the requests that name no project, say whether they want a stream and
\* have no tools or one tool
NarrowRequests ==
    {x \in Requests : x.project_id = Absent /\ x.stream # Absent
                                             /\ x.tools # Some(<<>>)}

\* such a request, and a persistence collaborator of which any kinds of call
\* fail
InitPersist ==
    /\ FlowStart
    /\ dbDown \in SUBSET DbCalls
    /\ persisted = {}
    /\ draining = {}
    /\ gateway = "serving"
    /\ client = "connected"
    /\ readers = {}
    /\ limiter = LimiterIdle
    /\ plan = 0
    /\ request \in {Some(q) : q \in NarrowRequests}

\* such a request, and a persistence collaborator whose calls succeed
InitNarrow ==
    /\ FlowStart
    /\ SideIdle
    /\ request \in {Some(q) : q \in NarrowRequests}

\* `let _ = db::...(...).await`: a call that fails stores nothing and its
\* error is dropped
Persist(kinds) ==
    /\ persisted' = persisted \cup (kinds \ dbDown)
    /\ UNCHANGED <<dbDown, draining, gateway, client, readers, limiter, plan>>

\* chat.rs:37-52: the request is rejected before anything else is done
RejectBadRequest ==
    /\ fpc = "start"
    /\ ~Valid(Req)
    /\ fpc' = "responded"
    /\ response' = Some(ErrorResponse("BadRequest"))
    /\ shape' = "error"
    /\ UNCHANGED <<request, others, tpc, backend, nlines, reader, chan,
                   claude_session_id, entry, release, received, sent,
                   content_parts, usage>>
    /\ UNCHANGED <<mgrUnused, pureVars, procVars, sideVars>>

\* chat.rs:170-184: create_session fails (manager.rs:49-54 at the ceiling,
\* process.rs:86-102 in spawn) and the handler returns the error
CreateSessionFails(kind) ==
    /\ fpc = "start"
    /\ Valid(Req)
    /\ kind = "ServiceUnavailable:capacity" <=> CapacityReached(others)
    /\ fpc' = "responded"
    /\ response' = Some(ErrorResponse("ServiceUnavailable"))
    /\ shape' = "error"
    /\ UNCHANGED <<request, others, tpc, backend, nlines, reader, chan,
                   claude_session_id, entry, release, received, sent,
                   content_parts, usage>>
    /\ UNCHANGED <<mgrUnused, pureVars, procVars, sideVars>>

\* chat.rs:170-275 up to the handler's first suspension in its own loop:
\* create_session succeeds (spawn has read the backend's first line, or found
\* its output closed: first = Absent), the process is inserted under its
\* effective key, and on the streaming path the task is spawned and the
\* response with the SSE body is returned (chat.rs:199-275).
CreateSessionOk(first) ==
    /\ fpc = "start"
    /\ Valid(Req)
    /\ ~CapacityReached(others)
    /\ LET sid == IF IsSome(first) THEN FirstLineSessionId(Get(first)) ELSE Absent
       IN  /\ claude_session_id' = sid
           /\ entry' = Some(EffectiveKey(OrNone(sid), Req.session_id))
    /\ chan' = IF IsSome(first) THEN FirstLineEvents(Get(first)) ELSE <<>>
    /\ backend' = IF IsSome(first) THEN "running" ELSE "exited"
    /\ nlines' = IF IsSome(first) THEN 1 ELSE 0
    /\ reader' = IF IsSome(first) THEN "running" ELSE "done"
    /\ IF do_stream
       THEN /\ tpc' = "role"
            /\ fpc' = "responded"
            /\ shape' = "sse_live"
       ELSE /\ fpc' = "loop"
            /\ UNCHANGED <<tpc, shape>>
    /\ UNCHANGED <<request, others, release, received, sent, content_parts,
                   usage, response>>
    /\ UNCHANGED <<mgrUnused, pureVars, procVars>>
    /\ Persist({"user_message"})

\* process.rs:125-143: the backend writes one more line and the reader task
\* handles it; a send fails once the consumer has dropped claude_stream, and
\* the reader task ends (process.rs:131-133, 138-140)
ReaderLine(line) ==
    /\ backend = "running"
    /\ reader = "running"
    /\ nlines < MaxLines
    /\ nlines' = nlines + 1
    /\ IF ReaderEvents(line) = <<>>
       THEN UNCHANGED <<chan, reader>>
       ELSE IF RxOpen
            THEN /\ Len(chan) < ChanCap
                 /\ chan' = chan \o ReaderEvents(line)
                 /\ UNCHANGED reader
            ELSE /\ reader' = "done"
                 /\ UNCHANGED chan
    /\ UNCHANGED <<request, others, fpc, tpc, backend, claude_session_id, entry,
                   release, received, sent, content_parts, usage, response, shape>>
    /\ UNCHANGED <<mgrUnused, pureVars, procVars, sideVars>>

\* the backend process ends on its own, closing its output; next_line()
\* returns None (process.rs:125) and the reader task ends, dropping the sender
BackendExit ==
    /\ backend = "running"
    /\ backend' = "exited"
    /\ reader' = "done"
    /\ UNCHANGED <<request, others, fpc, tpc, nlines, chan,
                   claude_session_id, entry, release, received, sent,
                   content_parts, usage, response, shape>>
    /\ UNCHANGED <<mgrUnused, pureVars, procVars, sideVars>>

StopCompletionKeepsEntry ==
    /\ TrackedAs(effective_session_id)
    /\ backend = "running"
    /\ backend' = "killed"
    /\ reader' = "done"
    /\ UNCHANGED <<request, others, fpc, tpc, nlines, chan, entry,
                   claude_session_id, release, received, sent, content_parts,
                   usage, response, shape>>
    /\ UNCHANGED <<mgrUnused, pureVars, procVars, sideVars>>

\* chat.rs:426-436 with manager.rs:75-80: a stop request with the session id
\* of this completion, while that id is a key of the table, removes the entry and kills the process; its output closes and the reader
\* task ends as above
StopCompletion ==
    /\ TrackedAs(effective_session_id)
    /\ entry' = Absent
    /\ backend' = IF backend = "running" THEN "killed" ELSE backend
    /\ reader' = "done"
    /\ UNCHANGED <<request, others, fpc, tpc, nlines, chan,
                   claude_session_id, release, received, sent, content_parts,
                   usage, response, shape>>
    /\ UNCHANGED <<mgrUnused, pureVars, procVars, sideVars>>

\* claude_stream.next() returns None: every sender is gone and nothing is queued
StreamEnded == reader = "done" /\ chan = <<>>

\* manager.rs:83-84 for this completion's key: the entry is removed if it is
\* tracked, and then the process is to be reaped; nothing otherwise
SessionFinished ==
    /\ release' = IF TrackedAs(effective_session_id) THEN "reaping" ELSE "noop"
    /\ entry' = IF TrackedAs(effective_session_id) THEN Absent ELSE entry

\* manager.rs:85: process.reap().await returns when the process has exited
Reaped ==
    /\ release = "reaping" => backend # "running"
    /\ release' = IF release = "reaping" THEN "reaped" ELSE release

\* chat.rs:212, 224, 248, 256  let _ = tx.send(...).await: the event goes to
\* the client while the response body is open; once the client is gone the
\* send fails, its error is dropped and the task goes on
Deliver(event) == IF client = "connected" THEN Append(sent, event) ELSE sent

\* chat.rs:212-218: the task sends the role-open chunk
TaskRole ==
    /\ tpc = "role"
    /\ sent' = Deliver(sse_event(initial_chunk))
    /\ tpc' = "loop"
    /\ UNCHANGED <<request, others, fpc, backend, nlines, reader, chan,
                   claude_session_id, entry, release, received, content_parts,
                   usage, response, shape>>
    /\ UNCHANGED <<mgrUnused, pureVars, procVars, sideVars>>

TaskRecvTerminalInLoop ==
    /\ tpc = "loop"
    /\ chan # <<>>
    /\ LET msg == Head(chan)
       IN  /\ chan' = Tail(chan)
           /\ received' = Append(received, msg)
           /\ sent' = sent
                \o (IF IsSome(EventText(msg))
                    THEN <<sse_event(content_chunk(Get(EventText(msg))))>>
                    ELSE <<>>)
                \o (IF is_result_message(msg)
                    THEN <<sse_event(final_chunk("stop"))>> ELSE <<>>)
           /\ usage' = CapturedUsage(msg, usage)
           /\ tpc' = IF LoopBreaks(msg) THEN "final" ELSE "loop"
    /\ UNCHANGED <<request, others, fpc, backend, nlines, reader,
                   claude_session_id, entry, release, content_parts, response,
                   shape>>
    /\ UNCHANGED <<mgrUnused, pureVars, procVars>>
    /\ Persist(IF chan # <<>> /\ is_result_message(Head(chan))
                  /\ IsSome(extract_usage(Head(chan)))
               THEN {"session_metrics"} ELSE {})

\* chat.rs:221-246: one turn of the streaming loop
TaskRecv ==
    /\ tpc = "loop"
    /\ chan # <<>>
    /\ LET msg == Head(chan)
       IN  /\ chan' = Tail(chan)
           /\ received' = Append(received, msg)
           /\ sent' = IF IsSome(EventText(msg))
                      THEN Deliver(sse_event(content_chunk(Get(EventText(msg)))))
                      ELSE sent
           /\ usage' = CapturedUsage(msg, usage)
           /\ tpc' = IF LoopBreaks(msg) THEN "final" ELSE "loop"
    /\ UNCHANGED <<request, others, fpc, backend, nlines, reader,
                   claude_session_id, entry, release, content_parts, response,
                   shape>>
    /\ UNCHANGED <<mgrUnused, pureVars, procVars>>
    /\ Persist(IF chan # <<>> /\ is_result_message(Head(chan))
                  /\ IsSome(extract_usage(Head(chan)))
               THEN {"session_metrics"} ELSE {})

TaskStreamEndAsError ==
    /\ tpc = "loop"
    /\ StreamEnded
    /\ tpc' = "final"
    /\ shape' = "error"
    /\ response' = Some(ErrorResponse("Internal"))
    /\ UNCHANGED <<request, others, fpc, backend, nlines, reader, chan,
                   claude_session_id, entry, release, received, sent,
                   content_parts, usage>>
    /\ UNCHANGED <<mgrUnused, pureVars, procVars, sideVars>>

\* chat.rs:221: the stream ends without a result event
TaskStreamEnd ==
    /\ tpc = "loop"
    /\ StreamEnded
    /\ tpc' = "final"
    /\ UNCHANGED <<request, others, fpc, backend, nlines, reader, chan,
                   claude_session_id, entry, release, received, sent,
                   content_parts, usage, response, shape>>
    /\ UNCHANGED <<mgrUnused, pureVars, procVars, sideVars>>

\* chat.rs:248-255: the terminal chunk
TaskFinal ==
    /\ tpc = "final"
    /\ sent' = Deliver(sse_event(final_chunk("stop")))
    /\ tpc' = "marker"
    /\ UNCHANGED <<request, others, fpc, backend, nlines, reader, chan,
                   claude_session_id, entry, release, received, content_parts,
                   usage, response, shape>>
    /\ UNCHANGED <<mgrUnused, pureVars, procVars, sideVars>>

\* chat.rs:256: the end-of-stream marker
TaskMarker ==
    /\ tpc = "marker"
    /\ sent' = Deliver(sse_done)
    /\ tpc' = "finish"
    /\ UNCHANGED <<request, others, fpc, backend, nlines, reader, chan,
                   claude_session_id, entry, release, received, content_parts,
                   usage, response, shape>>
    /\ UNCHANGED <<mgrUnused, pureVars, procVars, sideVars>>

\* chat.rs:258-259: session_finished, then the task ends and drops
\* claude_stream and the body sender
TaskSessionFinished ==
    /\ tpc = "finish"
    /\ SessionFinished
    /\ tpc' = "reap"
    /\ UNCHANGED <<request, others, fpc, backend, nlines, reader, chan,
                   claude_session_id, received, sent, content_parts, usage,
                   response, shape>>
    /\ UNCHANGED <<mgrUnused, pureVars, procVars, sideVars>>

\* chat.rs:258-259: session_finished returns, the task ends
TaskReaped ==
    /\ tpc = "reap"
    /\ Reaped
    /\ tpc' = "end"
    /\ UNCHANGED <<request, others, fpc, backend, nlines, reader, chan,
                   claude_session_id, entry, received, sent, content_parts,
                   usage, response, shape>>
    /\ UNCHANGED <<mgrUnused, pureVars, procVars, sideVars>>

\* chat.rs:285-299: one turn of the buffered loop
BufferedRecv ==
    /\ fpc = "loop"
    /\ chan # <<>>
    /\ LET msg == Head(chan)
       IN  /\ chan' = Tail(chan)
           /\ received' = Append(received, msg)
           /\ content_parts' = IF IsSome(EventText(msg))
                               THEN Append(content_parts, Get(EventText(msg)))
                               ELSE content_parts
           /\ usage' = CapturedUsage(msg, usage)
           /\ fpc' = IF LoopBreaks(msg) THEN "finish" ELSE "loop"
    /\ UNCHANGED <<request, others, tpc, backend, nlines, reader,
                   claude_session_id, entry, release, sent, response, shape>>
    /\ UNCHANGED <<mgrUnused, pureVars, procVars, sideVars>>

\* chat.rs:285: the stream ends without a result event
BufferedStreamEnd ==
    /\ fpc = "loop"
    /\ StreamEnded
    /\ fpc' = "finish"
    /\ UNCHANGED <<request, others, tpc, backend, nlines, reader, chan,
                   claude_session_id, entry, release, received, sent,
                   content_parts, usage, response, shape>>
    /\ UNCHANGED <<mgrUnused, pureVars, procVars, sideVars>>

\* chat.rs:301-304
BufferedSessionFinished ==
    /\ fpc = "finish"
    /\ SessionFinished
    /\ fpc' = "reap"
    /\ UNCHANGED <<request, others, tpc, backend, nlines, reader, chan,
                   claude_session_id, received, sent, content_parts, usage,
                   response, shape>>
    /\ UNCHANGED <<mgrUnused, pureVars, procVars, sideVars>>

\* chat.rs:301-304: session_finished returns
BufferedReaped ==
    /\ fpc = "reap"
    /\ Reaped
    /\ fpc' = "assemble"
    /\ UNCHANGED <<request, others, tpc, backend, nlines, reader, chan,
                   claude_session_id, entry, received, sent, content_parts,
                   usage, response, shape>>
    /\ UNCHANGED <<mgrUnused, pureVars, procVars, sideVars>>

RespondOrDbError ==
    /\ fpc = "assemble"
    /\ LET resp == IF "assistant_message" \in dbDown
                   THEN ErrorResponse("Internal")
                   ELSE BuildResponse(Req, content_parts, usage, effective_session_id)
       IN  /\ response' = Some(resp)
           /\ IF "assistant_message" \in dbDown
              THEN /\ shape' = "error"
                   /\ UNCHANGED sent
              ELSE IF wants_stream
              THEN /\ shape' = "sse_replay"
                   /\ sent' = wrap_response_as_sse(resp)
              ELSE /\ shape' = "json"
                   /\ UNCHANGED sent
    /\ fpc' = "responded"
    /\ UNCHANGED <<request, others, tpc, backend, nlines, reader, chan,
                   claude_session_id, entry, release, received, content_parts,
                   usage>>
    /\ UNCHANGED <<mgrUnused, pureVars, procVars>>
    /\ Persist({"assistant_message", "session_metrics"})

\* chat.rs:306-393: build the response and return it, as one JSON object or,
\* when the client asked for a stream, replayed as SSE events
Respond ==
    /\ fpc = "assemble"
    /\ LET resp == BuildResponse(Req, content_parts, usage, effective_session_id)
       IN  /\ response' = Some(resp)
           /\ IF wants_stream
              THEN /\ shape' = "sse_replay"
                   /\ sent' = wrap_response_as_sse(resp)
              ELSE /\ shape' = "json"
                   /\ UNCHANGED sent
    /\ fpc' = "responded"
    /\ UNCHANGED <<request, others, tpc, backend, nlines, reader, chan,
                   claude_session_id, entry, release, received, content_parts,
                   usage>>
    /\ UNCHANGED <<mgrUnused, pureVars, procVars>>
    /\ Persist({"assistant_message", "session_metrics"})

CreateErrors == {"ServiceUnavailable:capacity", "ServiceUnavailable:spawn",
                 "Internal:stdin", "Internal:stdout"}

NextFlow ==
    \/ RejectBadRequest
    \/ \E kind \in CreateErrors : CreateSessionFails(kind)
    \/ \E first \in {Some(l) : l \in BackendLines} \cup {Absent} :
           CreateSessionOk(first)
    \/ \E line \in BackendLines : ReaderLine(line)
    \/ BackendExit
    \/ StopCompletion
    \/ TaskRole
    \/ TaskRecv
    \/ TaskStreamEnd
    \/ TaskFinal
    \/ TaskMarker
    \/ TaskSessionFinished
    \/ TaskReaped
    \/ BufferedRecv
    \/ BufferedStreamEnd
    \/ BufferedSessionFinished
    \/ BufferedReaped
    \/ Respond

SpecFlow == InitFlow /\ [][NextFlow]_vars

\* a step of the completion before its response is built: of its handler or
\* of its streaming task
CompletionStep ==
    \/ TaskRole
    \/ TaskRecv
    \/ TaskStreamEnd
    \/ TaskFinal
    \/ TaskMarker
    \/ TaskSessionFinished
    \/ TaskReaped
    \/ BufferedRecv
    \/ BufferedStreamEnd
    \/ BufferedSessionFinished
    \/ BufferedReaped

\* the runtime polls the completion whenever it can go on, and the client
\* takes the chunks it is sent.  Nothing makes the backend write or exit, and
\* nothing makes anyone ask for a stop.  Respond is enabled exactly when the
\* handler is at "assemble" and every Respond step leaves that position, so
\* its weak fairness is written as the handler not staying there.
FairFlow ==
    /\ WF_vars(CompletionStep)
    /\ []<>(fpc # "assemble")

SpecFlowFair == InitNarrow /\ [][NextFlow]_vars /\ FairFlow

\* the connection of the request is still open: the client is there and has
\* not been given the whole response
ConnectionOpen ==
    /\ client = "connected"
    /\ ~(fpc = "responded" /\ (shape = "sse_live" => tpc = "end"))

\* the client of a live stream closes the connection before the stream's end;
\* the body stream and its receiver are dropped, the task of chat.rs:211-259
\* is not
ClientDisconnect ==
    /\ client = "connected"
    /\ shape = "sse_live"
    /\ tpc # "end"
    /\ client' = "gone"
    /\ UNCHANGED <<mgrVars, flowVars, pureVars, procVars, dbDown, persisted,
                   draining, gateway, readers, limiter, plan>>

\* main.rs:88-93: shutdown_signal completes on ctrl-c and the server stops
\* accepting, while the connections it has go on
ShutdownSignal ==
    /\ gateway = "serving"
    /\ gateway' = "draining"
    /\ UNCHANGED <<mgrVars, flowVars, pureVars, procVars, dbDown, persisted,
                   draining, client, readers, limiter, plan>>

\* main.rs:80-86: axum::serve returns once no connection is left, and main
\* returns after it; nothing is called on the manager, and a child spawned
\* without kill_on_drop (process.rs:37-86) outlives the handle main drops
GatewayExit ==
    /\ gateway = "draining"
    /\ ~ConnectionOpen
    /\ gateway' = "exited"
    /\ UNCHANGED <<mgrVars, flowVars, pureVars, procVars, dbDown, persisted,
                   draining, client, readers, limiter, plan>>

\* the request in a gateway that is told to shut down and exits: nothing of
\* the gateway moves once it has exited
Running == gateway # "exited"

NextMain ==
    \/ Running /\ RejectBadRequest
    \/ Running /\ \E kind \in CreateErrors : CreateSessionFails(kind)
    \/ Running /\ \E first \in {Some(l) : l \in BackendLines} \cup {Absent} :
                      CreateSessionOk(first)
    \/ Running /\ \E line \in BackendLines : ReaderLine(line)
    \/ Running /\ BackendExit
    \/ Running /\ StopCompletion
    \/ Running /\ TaskRole
    \/ Running /\ TaskRecv
    \/ Running /\ TaskStreamEnd
    \/ Running /\ TaskFinal
    \/ Running /\ TaskMarker
    \/ Running /\ TaskSessionFinished
    \/ Running /\ TaskReaped
    \/ Running /\ BufferedRecv
    \/ Running /\ BufferedStreamEnd
    \/ Running /\ BufferedSessionFinished
    \/ Running /\ BufferedReaped
    \/ Running /\ Respond
    \/ ClientDisconnect
    \/ ShutdownSignal
    \/ GatewayExit

SpecMain == InitNarrow /\ [][NextMain]_vars

\* the same handler with a persistence collaborator that may fail
SpecPersist == InitPersist /\ [][NextFlow]_vars

(***************************************************************************)
(* wrap_response_as_sse on its own: every response value of the bounded    *)
(* set below is given to it once.                                          *)
(***************************************************************************)
\* sequences over S of length at most n
RECURSIVE SeqsUpTo(_, _)
SeqsUpTo(S, n) ==
    IF n = 0 THEN {<<>>}
    ELSE SeqsUpTo(S, n - 1)
           \cup {Append(q, x) : q \in {p \in SeqsUpTo(S, n - 1) : Len(p) = n - 1},
                                x \in S}

WrapToolCalls ==
    { [id |-> 1, type |-> "function",
       function |-> [name |-> "get_weather", arguments |-> "{\"city\":\"Paris\"}"]],
      [id |-> 2, type |-> "function",
       function |-> [name |-> "search", arguments |-> "{}"]] }

WrapChoices ==
    [message : [content : {Absent, Some(<<>>), Some(<<"h", "i">>)},
                tool_calls : {Absent} \cup {Some(t) : t \in SeqsUpTo(WrapToolCalls, MaxCalls)}],
     finish_reason : {Absent, Some("stop"), Some("tool_calls"), Some("length")}]

WrapInputs == {[choices |-> <<>>]} \cup {[choices |-> <<c>>] : c \in WrapChoices}

InitWrap ==
    /\ MgrStart
    /\ ToolIdle
    /\ ModelIdle
    /\ SideIdle
    /\ ProcIdle
    /\ request = Absent
    /\ FlowIdle
    /\ wrapResp \in {Some(r) : r \in WrapInputs}
    /\ wrapEvents = Absent

\* streaming.rs:75-145 applied to the given response
Wrap ==
    /\ wrapEvents = Absent
    /\ wrapEvents' = Some(wrap_response_as_sse(Get(wrapResp)))
    /\ UNCHANGED <<wrapResp, toolVars, modelVars, usageVars, mgrVars, flowVars,
                   procVars, sideVars>>

NextWrap == Wrap

SpecWrap == InitWrap /\ [][NextWrap]_vars

(***************************************************************************)
(* One ClaudeProcess on its own (process.rs:105-146): spawn reads the first *)
(* line, the reader task reads the later ones and sends an event for each  *)
(* through the bounded channel, and a consumer takes events from the       *)
(* stream or drops it.  A line is read as soon as the backend writes it.   *)
(***************************************************************************)
\* the line of a backend that keeps writing the same assistant event
FillerLine ==
    JsonLine(Event(Some("assistant"), Absent, Str(<<" ", "h", "i", " ">>), Absent))

\* lines of an output long enough to fill the channel and go past it
LongRun == ChanCap + 2

\* the first MaxLines lines are any lines; an output of nothing but
\* FillerLine goes on up to LongRun lines
MayWrite(line) ==
    IF Len(written) < MaxLines THEN line \in BackendLines
    ELSE /\ line = FillerLine
         /\ Len(written) < LongRun
         /\ \A i \in 1..Len(written) : written[i] = FillerLine

EnqueueFront(ch, evs) == evs \o ch

\* process.rs:118,131,138  tx.send(val): the channel is a FIFO queue
Enqueue(ch, evs) == ch \o evs

\* process.rs:86-121,146-156: the child is started, spawn reads its first
\* line (first = Absent: the output closed without a line), takes the session
\* id from it and forwards it if it parsed, starts the reader task and returns
\* the stream and the session id
Spawn(first) ==
    /\ backend = "none"
    /\ consumer = "none"
    /\ written' = IF IsSome(first) THEN <<Get(first)>> ELSE <<>>
    /\ claude_session_id' =
           IF IsSome(first) THEN FirstLineSessionId(Get(first)) ELSE Absent
    /\ chan' = IF IsSome(first) THEN Enqueue(<<>>, FirstLineEvents(Get(first)))
               ELSE <<>>
    /\ backend' = IF IsSome(first) THEN "running" ELSE "exited"
    /\ reader' = IF IsSome(first) THEN "running" ELSE "done"
    /\ pending' = Absent
    /\ consumer' = "open"
    /\ UNCHANGED <<request, others, fpc, tpc, nlines, entry, release, received,
                   sent, content_parts, usage, response, shape>>
    /\ UNCHANGED <<mgrVars, pureVars, sideVars>>

\* process.rs:125-142: lines.next_line() returns a line; a blank one is
\* skipped, any other becomes the event the task goes on to send
ProcReaderRead(line) ==
    /\ backend = "running"
    /\ reader = "running"
    /\ pending = Absent
    /\ MayWrite(line)
    /\ written' = Append(written, line)
    /\ pending' = IF ReaderEvents(line) = <<>> THEN Absent
                  ELSE Some(ReaderEvents(line)[1])
    /\ UNCHANGED consumer
    /\ UNCHANGED <<mgrVars, flowVars, pureVars, sideVars>>

ProcReaderSendUnbounded ==
    /\ reader = "running"
    /\ IsSome(pending)
    /\ IF consumer = "dropped"
       THEN /\ reader' = "done"
            /\ UNCHANGED chan
       ELSE /\ chan' = Enqueue(chan, <<Get(pending)>>)
            /\ reader' = IF backend = "running" THEN "running" ELSE "done"
    /\ pending' = Absent
    /\ UNCHANGED <<written, consumer>>
    /\ UNCHANGED <<request, others, fpc, tpc, backend, nlines,
                   claude_session_id, entry, release, received, sent,
                   content_parts, usage, response, shape>>
    /\ UNCHANGED <<mgrVars, pureVars, sideVars>>

ProcReaderSendIgnoresError ==
    /\ reader = "running"
    /\ IsSome(pending)
    /\ IF consumer = "dropped"
       THEN /\ reader' = IF backend = "running" THEN "running" ELSE "done"
            /\ UNCHANGED chan
       ELSE /\ Len(chan) < ChanCap
            /\ chan' = Enqueue(chan, <<Get(pending)>>)
            /\ reader' = IF backend = "running" THEN "running" ELSE "done"
    /\ pending' = Absent
    /\ UNCHANGED <<written, consumer>>
    /\ UNCHANGED <<request, others, fpc, tpc, backend, nlines,
                   claude_session_id, entry, release, received, sent,
                   content_parts, usage, response, shape>>
    /\ UNCHANGED <<mgrVars, pureVars, sideVars>>

\* process.rs:131,138  tx.send(val).await: it completes when the channel has
\* room, and fails, ending the task, when the receiver is gone; after the
\* send the task reads on and finds the end of a closed output
ProcReaderSend ==
    /\ reader = "running"
    /\ IsSome(pending)
    /\ IF consumer = "dropped"
       THEN /\ reader' = "done"
            /\ UNCHANGED chan
       ELSE /\ Len(chan) < ChanCap
            /\ chan' = Enqueue(chan, <<Get(pending)>>)
            /\ reader' = IF backend = "running" THEN "running" ELSE "done"
    /\ pending' = Absent
    /\ UNCHANGED <<written, consumer>>
    /\ UNCHANGED <<request, others, fpc, tpc, backend, nlines,
                   claude_session_id, entry, release, received, sent,
                   content_parts, usage, response, shape>>
    /\ UNCHANGED <<mgrVars, pureVars, sideVars>>

\* the backend ends and closes its output: next_line() returns None
\* (process.rs:125) as soon as the task is back at it
ProcBackendExit ==
    /\ backend = "running"
    /\ backend' = "exited"
    /\ reader' = IF pending = Absent THEN "done" ELSE reader
    /\ UNCHANGED procVars
    /\ UNCHANGED <<request, others, fpc, tpc, nlines, chan, claude_session_id,
                   entry, release, received, sent, content_parts, usage,
                   response, shape>>
    /\ UNCHANGED <<mgrVars, pureVars, sideVars>>

\* process.rs:146  ReceiverStream::next(): the consumer takes the oldest event
ConsumerTake ==
    /\ consumer = "open"
    /\ chan # <<>>
    /\ received' = Append(received, Head(chan))
    /\ chan' = Tail(chan)
    /\ UNCHANGED procVars
    /\ UNCHANGED <<request, others, fpc, tpc, backend, nlines, reader,
                   claude_session_id, entry, release, sent, content_parts,
                   usage, response, shape>>
    /\ UNCHANGED <<mgrVars, pureVars, sideVars>>

\* the consumer drops the stream, and with it the queued events
ConsumerDrop ==
    /\ consumer = "open"
    /\ consumer' = "dropped"
    /\ chan' = <<>>
    /\ UNCHANGED <<written, pending>>
    /\ UNCHANGED <<request, others, fpc, tpc, backend, nlines, reader,
                   claude_session_id, entry, release, received, sent,
                   content_parts, usage, response, shape>>
    /\ UNCHANGED <<mgrVars, pureVars, sideVars>>

InitProc ==
    /\ MgrStart
    /\ ToolIdle
    /\ ModelIdle
    /\ SideIdle
    /\ request = Absent
    /\ FlowIdle
    /\ WrapIdle
    /\ ProcIdle

NextProc ==
    \/ \E first \in {Some(l) : l \in BackendLines} \cup {Absent} : Spawn(first)
    \/ \E line \in BackendLines : ProcReaderRead(line)
    \/ ProcReaderSend
    \/ ProcBackendExit
    \/ ConsumerTake
    \/ ConsumerDrop

SpecProc == InitProc /\ [][NextProc]_vars

\* the runtime polls a task that can go on: a send that can complete or fail
\* does.  Nothing makes the backend write or exit, or the consumer take.
SpecProcFair == SpecProc /\ WF_vars(ProcReaderSend)

(***************************************************************************)
(* The same process under a consumer that leaves its loop at the result    *)
(* event and calls session_finished (chat.rs:285-304), with a backend that *)
(* follows a program: it writes plan lines and then exits.  Before its     *)
(* result event it writes any lines, MaxLines at most; after it, the same  *)
(* assistant event again and again.                                        *)
(***************************************************************************)
\* lines of an output that goes past what the consumer takes up to the
\* result event, a full channel and the event the reader task holds
FloodRun == LongRun + MaxLines

Plans == (1..MaxLines) \cup {LongRun, FloodRun}

HasResult(lines) ==
    \E i \in 1..Len(lines) :
        lines[i].kind = "json" /\ is_result_message(Get(lines[i].val))

\* the next line of the program
PlannedLine(line) ==
    IF HasResult(written) THEN line = FillerLine
    ELSE line \in BackendLines /\ Len(written) < MaxLines

\* the backend has written what it had to write
PlanDone ==
    \/ Len(written) >= plan
    \/ ~HasResult(written) /\ Len(written) >= MaxLines

InitProcReap ==
    /\ MgrStart
    /\ ToolIdle
    /\ ModelIdle
    /\ request = Absent
    /\ FlowIdle
    /\ WrapIdle
    /\ ProcIdle
    /\ dbDown = {}
    /\ persisted = {}
    /\ draining = {}
    /\ gateway = "serving"
    /\ client = "connected"
    /\ readers = {}
    /\ limiter = LimiterIdle
    /\ plan \in Plans

\* process.rs:125-142 as in ProcReaderRead, the line being the next one of
\* the program; the backend's write completes because the task reads it
PlannedRead(line) ==
    /\ backend = "running"
    /\ reader = "running"
    /\ pending = Absent
    /\ Len(written) < plan
    /\ PlannedLine(line)
    /\ written' = Append(written, line)
    /\ pending' = IF ReaderEvents(line) = <<>> THEN Absent
                  ELSE Some(ReaderEvents(line)[1])
    /\ UNCHANGED consumer
    /\ UNCHANGED <<mgrVars, flowVars, pureVars, sideVars>>

\* the backend exits when its program is over; a backend that has a line to
\* write stays in that write until the line is read
PlannedExit ==
    /\ PlanDone
    /\ ProcBackendExit

\* chat.rs:285-299: the loop takes events until it has taken a result event
LoopTake ==
    /\ release = "pending"
    /\ \A i \in 1..Len(received) : ~is_result_message(received[i])
    /\ ConsumerTake

\* chat.rs:297-304 with manager.rs:83-85: break on the result event, then
\* session_finished, which awaits the reap; claude_stream stays alive
LoopSessionFinished ==
    /\ consumer = "open"
    /\ release = "pending"
    /\ received # <<>>
    /\ is_result_message(received[Len(received)])
    /\ release' = "reaping"
    /\ UNCHANGED procVars
    /\ UNCHANGED <<request, others, fpc, tpc, backend, nlines, reader, chan,
                   claude_session_id, entry, received, sent, content_parts,
                   usage, response, shape>>
    /\ UNCHANGED <<mgrVars, pureVars, sideVars>>

\* manager.rs:85: reap returns once the process has exited; the handler goes
\* on to its response and claude_stream is dropped when it returns
LoopReaped ==
    /\ release = "reaping"
    /\ backend # "running"
    /\ release' = "reaped"
    /\ consumer' = "dropped"
    /\ chan' = <<>>
    /\ UNCHANGED <<written, pending>>
    /\ UNCHANGED <<request, others, fpc, tpc, backend, nlines, reader,
                   claude_session_id, entry, received, sent, content_parts,
                   usage, response, shape>>
    /\ UNCHANGED <<mgrVars, pureVars, sideVars>>

NextProcReap ==
    \/ \E first \in {Some(l) : l \in BackendLines} : Spawn(first)
    \/ \E line \in BackendLines : PlannedRead(line)
    \/ ProcReaderSend
    \/ PlannedExit
    \/ LoopTake
    \/ LoopSessionFinished
    \/ LoopReaped

\* every task that can go on does, and so does the backend: it writes when
\* its line can be read and exits when its program is over
FairProcReap ==
    /\ WF_vars(ProcReaderSend)
    /\ WF_vars(\E line \in BackendLines : PlannedRead(line))
    /\ WF_vars(PlannedExit)
    /\ WF_vars(LoopTake)
    /\ WF_vars(LoopSessionFinished)
    /\ WF_vars(LoopReaped)

SpecProcReap == InitProcReap /\ [][NextProcReap]_vars /\ FairProcReap

(***************************************************************************)
(* The same process and backend under the streaming task of a live stream  *)
(* (chat.rs:211-259), whose client may go away at any moment before the    *)
(* task ends.  The task sends with let _ = tx.send(..).await: a send to a  *)
(* client that is gone fails at once and the task goes on.                 *)
(***************************************************************************)
\* a short output, and one that goes past the channel after its result event
LivePlans == {MaxLines, FloodRun}

InitLiveGone ==
    /\ MgrStart
    /\ ToolIdle
    /\ ModelIdle
    /\ request = Absent
    /\ FlowIdle
    /\ WrapIdle
    /\ ProcIdle
    /\ dbDown = {}
    /\ persisted = {}
    /\ draining = {}
    /\ gateway = "serving"
    /\ client = "connected"
    /\ readers = {}
    /\ limiter = LimiterIdle
    /\ plan \in LivePlans

\* the connection of the live stream is closed: the response body and the
\* receiver in it are dropped, the task is not
StreamClientGone ==
    /\ client = "connected"
    /\ consumer = "open"
    /\ tpc # "end"
    /\ client' = "gone"
    /\ UNCHANGED <<mgrVars, flowVars, pureVars, procVars, dbDown, persisted,
                   draining, gateway, readers, limiter, plan>>

\* chat.rs:212-218: the task begins with the role-open chunk
StreamRole ==
    /\ consumer = "open"
    /\ tpc = "none"
    /\ tpc' = "loop"
    /\ sent' = Deliver(sse_event(initial_chunk))
    /\ UNCHANGED <<request, others, fpc, backend, nlines, reader, chan,
                   claude_session_id, entry, release, received, content_parts,
                   usage, response, shape>>
    /\ UNCHANGED <<mgrVars, pureVars, procVars, sideVars>>

\* chat.rs:221-246: one turn of the task's loop: it takes an event and sends
\* the text of an assistant event as a content chunk
StreamTake ==
    /\ consumer = "open"
    /\ tpc = "loop"
    /\ chan # <<>>
    /\ \A i \in 1..Len(received) : ~is_result_message(received[i])
    /\ received' = Append(received, Head(chan))
    /\ chan' = Tail(chan)
    /\ sent' = IF IsSome(EventText(Head(chan)))
               THEN Deliver(sse_event(content_chunk(Get(EventText(Head(chan))))))
               ELSE sent
    /\ UNCHANGED <<request, others, fpc, tpc, backend, nlines, reader,
                   claude_session_id, entry, release, content_parts, usage,
                   response, shape>>
    /\ UNCHANGED <<mgrVars, pureVars, procVars, sideVars>>

\* chat.rs:244-258 with manager.rs:83-85: the loop is left at the result event
\* or at the end of the stream; the task sends the final chunk and the marker
\* and calls session_finished, which awaits the reap; claude_stream stays alive
StreamSessionFinished ==
    /\ consumer = "open"
    /\ tpc = "loop"
    /\ \/ received # <<>> /\ is_result_message(received[Len(received)])
       \/ StreamEnded
    /\ sent' = IF client = "connected"
               THEN sent \o <<sse_event(final_chunk("stop")), sse_done>>
               ELSE sent
    /\ tpc' = "reap"
    /\ release' = "reaping"
    /\ UNCHANGED <<request, others, fpc, backend, nlines, reader, chan,
                   claude_session_id, entry, received, content_parts, usage,
                   response, shape>>
    /\ UNCHANGED <<mgrVars, pureVars, procVars, sideVars>>

\* chat.rs:258-259: reap returns once the process has exited, and the task
\* ends, dropping claude_stream
StreamReaped ==
    /\ tpc = "reap"
    /\ backend # "running"
    /\ release' = "reaped"
    /\ tpc' = "end"
    /\ consumer' = "dropped"
    /\ chan' = <<>>
    /\ UNCHANGED <<written, pending>>
    /\ UNCHANGED <<request, others, fpc, backend, nlines, reader,
                   claude_session_id, entry, received, sent, content_parts,
                   usage, response, shape>>
    /\ UNCHANGED <<mgrVars, pureVars, sideVars>>

NextLiveGone ==
    \/ \E first \in {Some(l) : l \in BackendLines} : Spawn(first)
    \/ \E line \in BackendLines : PlannedRead(line)
    \/ ProcReaderSend
    \/ PlannedExit
    \/ StreamClientGone
    \/ StreamRole
    \/ StreamTake
    \/ StreamSessionFinished
    \/ StreamReaped

\* every task that can go on does, and the backend follows its program;
\* nothing makes the client go away
FairLiveGone ==
    /\ WF_vars(ProcReaderSend)
    /\ WF_vars(\E line \in BackendLines : PlannedRead(line))
    /\ WF_vars(PlannedExit)
    /\ WF_vars(StreamRole)
    /\ WF_vars(StreamTake)
    /\ WF_vars(StreamSessionFinished)
    /\ WF_vars(StreamReaped)

SpecLiveGone == InitLiveGone /\ [][NextLiveGone]_vars /\ FairLiveGone

(***************************************************************************)
(* parse_tool_calls on its own: every text made of at most MaxParts pieces *)
(* is given to it once.                                                    *)
(***************************************************************************)
\* pieces of free text
FreePieces == {<<"a">>, <<" ">>, <<"\n", "b">>}
\* fenced blocks whose body is a JSON object with a name
GoodBlocks == {<<"OPEN", "JN", "CLOSE">>, <<"OPEN", " ", "JA", "\n", "CLOSE">>}
\* fenced blocks whose body is not JSON, has no name, or is empty
BadBlocks == {<<"OPEN", "BAD", "CLOSE">>, <<"OPEN", "JU", "CLOSE">>,
              <<"OPEN", "CLOSE">>}

Pieces == FreePieces \cup GoodBlocks \cup BadBlocks

\* pieces of one text
MaxParts == 3

RECURSIVE Concat(_)
Concat(ps) == IF ps = <<>> THEN <<>> ELSE ps[1] \o Concat(Tail(ps))

InitTools ==
    /\ MgrStart
    /\ request = Absent
    /\ FlowIdle
    /\ WrapIdle
    /\ ProcIdle
    /\ ModelIdle
    /\ SideIdle
    /\ toolParts \in SeqsUpTo(Pieces, MaxParts)
    /\ toolResult = Absent

\* tools.rs:78-123 applied to the text the pieces make
ParseText ==
    /\ toolResult = Absent
    /\ toolResult' = Some(parse_tool_calls(Concat(toolParts)))
    /\ UNCHANGED <<toolParts, wrapVars, modelVars, usageVars, mgrVars, flowVars,
                   procVars, sideVars>>

NextTools == ParseText

SpecTools == InitTools /\ [][NextTools]_vars

(***************************************************************************)
(* validate_claude_model on its own: every name of the bounded set below   *)
(* is given to it once.                                                    *)
(***************************************************************************)
\* characters appended to a stem to make a requested name
MaxSuffix == 2

\* the stems: nothing, the pass-through prefix, the prefix without its dash,
\* the prefix in another case, the two aliases, the start of an alias
NameStems == {<<>>, ClaudePrefix, <<"c", "l", "a", "u", "d", "e">>,
              <<"C", "l", "a", "u", "d", "e", "-">>, CcSonnet45, CcHaiku45,
              <<"c", "c", "-">>, <<"g", "p", "t">>}

\* the names a request may carry in its model field (chat.rs:35)
ModelNames == {st \o sx : st \in NameStems, sx \in SeqsUpTo({"x", "-", "4"}, MaxSuffix)}

InitModel ==
    /\ MgrStart
    /\ request = Absent
    /\ FlowIdle
    /\ WrapIdle
    /\ ProcIdle
    /\ ToolIdle
    /\ SideIdle
    /\ modelName \in ModelNames
    /\ modelResult = Absent
    /\ usageEvents = <<>>
    /\ usageResult = Absent

\* chat.rs:35  validate_claude_model(&request.model)
ResolveModel ==
    /\ modelResult = Absent
    /\ modelResult' = Some(validate_claude_model(modelName))
    /\ UNCHANGED <<modelName, wrapVars, toolVars, usageVars, mgrVars, flowVars,
                   procVars, sideVars>>

NextModel == ResolveModel

SpecModel == InitModel /\ [][NextModel]_vars

(***************************************************************************)
(* The usage of a buffered response on its own: the buffered loop          *)
(* (chat.rs:285-299) is given a bounded sequence of events and the usage   *)
(* of the response (chat.rs:346-350) is built from what it captured.       *)
(***************************************************************************)
\* events the loop is given in one behaviour
MaxEvents == 2

Usage(i, o) == Some([input_tokens |-> i, output_tokens |-> o])

\* an assistant event, an event that is no result but has a usage field, and
\* result events: with the usage 5 and 2, without a usage field, with a
\* usage field that lacks output_tokens, with input_tokens 2^32 + 5, with
\* input_tokens 2^33 - 1, and with input_tokens 2^32 - 1
UsageEvents ==
    { Event(Some("assistant"), Absent, Str(<<"h", "i">>), Absent),
      Event(Some("system"), Absent, Absent,
            Usage(Some(<<0, 0, 9>>), Some(<<0, 0, 9>>))),
      Event(Some("result"), Absent, Absent,
            Usage(Some(<<0, 0, 5>>), Some(<<0, 0, 2>>))),
      Event(Some("result"), Absent, Absent, Absent),
      Event(Some("result"), Absent, Absent, Usage(Some(<<0, 0, 7>>), Absent)),
      Event(Some("result"), Absent, Absent,
            Usage(Some(<<1, 0, 5>>), Some(<<0, 0, 2>>))),
      Event(Some("result"), Absent, Absent,
            Usage(Some(<<1, Limb - 1, Limb - 1>>), Some(<<0, 0, 2>>))),
      Event(Some("result"), Absent, Absent,
            Usage(Some(<<0, Limb - 1, Limb - 1>>), Some(<<0, 0, 2>>))) }

RECURSIVE LoopUsage(_, _)
\* chat.rs:285-299: the usage the loop has captured when it ends, at the
\* first result event or at the end of the stream
LoopUsage(evs, old) ==
    IF evs = <<>> THEN old
    ELSE IF LoopBreaks(Head(evs)) THEN CapturedUsage(Head(evs), old)
    ELSE LoopUsage(Tail(evs), CapturedUsage(Head(evs), old))

\* integer overflow checks of the build: on (debug profile) or off (release)
Profiles == {"debug", "release"}

InitUsage ==
    /\ MgrStart
    /\ request = Absent
    /\ FlowIdle
    /\ WrapIdle
    /\ ProcIdle
    /\ ToolIdle
    /\ SideIdle
    /\ modelName = <<>>
    /\ modelResult = Absent
    /\ usageEvents \in SeqsUpTo(UsageEvents, MaxEvents)
    /\ usageResult = Absent

\* chat.rs:281-299 and chat.rs:346-350; with overflow checks the addition of
\* chat.rs:349 panics when it overflows, and no response is built
BufferedUsage(profile) ==
    /\ usageResult = Absent
    /\ LET use == LoopUsage(usageEvents, Absent)
       IN  usageResult' =
               IF profile = "debug" /\ UsageOverflows(use)
               THEN Some([panic |-> TRUE, usage |-> ChatCompletionUsage(Absent)])
               ELSE Some([panic |-> FALSE, usage |-> ChatCompletionUsage(use)])
    /\ UNCHANGED <<usageEvents, wrapVars, toolVars, modelVars, mgrVars, flowVars,
                   procVars, sideVars>>

NextUsage == \E profile \in Profiles : BufferedUsage(profile)

SpecUsage == InitUsage /\ [][NextUsage]_vars

(***************************************************************************)
(* One turn of the event loop on one event (chat.rs:221-246 in the         *)
(* streaming task, chat.rs:285-299 in the buffered handler): the chunk it  *)
(* sends or the text it accumulates, and whether it leaves the loop.  The  *)
(* event is of any type with any content, with or without a usage field,   *)
(* or the synthetic event the reader task makes of a line that is not JSON.*)
(***************************************************************************)
EventTypes == {Some("assistant"), Some("result"), Some("system"),
               Some("user"), Some("text"), Absent}

\* message.content: absent, a string, a blank string, an array with a text
\* block and another block, an empty array, and a value that is neither
EventContents ==
    <<Absent, Str(<<"h", "i">>), Str(<<" ">>),
      Arr(<<TextBlock(<<"a">>), ImageBlock>>), Arr(<<>>),
      Some([kind |-> "null", v |-> <<>>])>>

EventUsages == {Absent, Usage(Some(<<0, 0, 5>>), Some(<<0, 0, 2>>))}

LoopModes == {"live", "buffered"}

InitEvents ==
    /\ MgrStart
    /\ request = Absent
    /\ FlowIdle
    /\ WrapIdle
    /\ ProcIdle
    /\ ToolIdle
    /\ SideIdle
    /\ modelName = <<>>
    /\ modelResult = Absent
    /\ \/ \E t \in EventTypes, c \in DOMAIN EventContents, u \in EventUsages :
              usageEvents = <<Event(t, Absent, EventContents[c], u)>>
       \/ usageEvents = <<SyntheticText(RawLine)>>
    /\ usageResult = Absent

\* chat.rs:222-246 (live: the content chunk sent) and chat.rs:286-298
\* (buffered: the text pushed to content_parts), and the break on a result
LoopTurn(mode) ==
    /\ usageResult = Absent
    /\ LET msg == usageEvents[1]
       IN  usageResult' =
               Some([mode |-> mode,
                     chunk |-> IF mode = "live" /\ IsSome(EventText(msg))
                               THEN Some(sse_event(content_chunk(Get(EventText(msg)))))
                               ELSE Absent,
                     part |-> IF mode = "buffered" THEN EventText(msg) ELSE Absent,
                     usage |-> CapturedUsage(msg, Absent),
                     breaks |-> LoopBreaks(msg)])
    /\ UNCHANGED <<usageEvents, wrapVars, toolVars, modelVars, mgrVars, flowVars,
                   procVars, sideVars>>

NextEvents == \E mode \in LoopModes : LoopTurn(mode)

SpecEvents == InitEvents /\ [][NextEvents]_vars

(***************************************************************************)
(* The rate limiter of auth.rs, driven on its own.  limiter holds the      *)
(* configured requests_per_minute and burst (u32, two limbs each), the     *)
(* clock, the window of each key, and what the last check was asked and    *)
(* answered.  The clock counts ticks, TicksPerSec of them in a second, so  *)
(* that as_secs has something to round away.  accepted is the list of all  *)
(* the instants check has accepted for a key, which the code does not      *)
(* keep: it is what the claims about the window are stated against.        *)
(***************************************************************************)
ApiKeys == {"key-a", "key-b"}

\* auth.rs:35  the window: 60 seconds
WindowSecs == 60

TicksPerSec == 2

\* checks made in one behaviour
MaxChecks == 4

\* auth.rs:31  Instant::now(): the ticks since the check before
Steps == {0, 1, WindowSecs * TicksPerSec - 1, WindowSecs * TicksPerSec}

\* config.rs:44-47  RATE_LIMIT_REQUESTS_PER_MINUTE and RATE_LIMIT_BURST, any
\* u32 each
Limits ==
    { [rpm |-> <<0, 1>>, burst |-> <<0, 1>>],
      [rpm |-> <<0, 1>>, burst |-> <<0, 0>>],
      [rpm |-> <<Limb - 1, Limb - 1>>, burst |-> <<0, 2>>] }

\* auth.rs:22-28  RateLimiter::new
LimiterNew(l) ==
    [requests_per_minute |-> l.rpm,
     burst |-> l.burst,
     now |-> 0,
     windows |-> [k \in ApiKeys |-> <<>>],
     accepted |-> [k \in ApiKeys |-> <<>>],
     calls |-> 0,
     last |-> [key |-> "", answer |-> "none", seen |-> <<>>,
               before |-> [k \in ApiKeys |-> <<>>]]]

InitLimiter ==
    /\ MgrStart
    /\ request = Absent
    /\ FlowIdle
    /\ WrapIdle
    /\ ProcIdle
    /\ ToolIdle
    /\ ModelIdle
    /\ dbDown = {}
    /\ persisted = {}
    /\ draining = {}
    /\ gateway = "serving"
    /\ client = "connected"
    /\ readers = {}
    /\ limiter \in {LimiterNew(l) : l \in Limits}
    /\ plan = 0

\* Duration::as_secs: whole seconds
as_secs(d) == d \div TicksPerSec

\* auth.rs:35  window.retain(|t| now.duration_since(*t).as_secs() < 60)
Retain(window, now) ==
    SelectSeq(window, LAMBDA t : as_secs(now - t) < WindowSecs)

\* auth.rs:37  window.len() as u32 >= limit
LenReaches(window, limit) == limit[1] = 0 /\ Len(window) >= limit[2]

\* auth.rs:37-42  false when the window is full, true otherwise
Answer(window, limit) ==
    IF LenReaches(window, limit) THEN "reject" ELSE "accept"

\* auth.rs:30-43  RateLimiter::check(key), d ticks after the check before.
\* requests_per_minute + burst is a u32 addition: when it overflows, a build
\* with overflow checks panics there, and one without goes on with the
\* wrapped sum.
Check(key, d) ==
    /\ limiter.calls < MaxChecks
    /\ LET now == limiter.now + d
           window == Retain(limiter.windows[key], now)
           sum == AddU32(limiter.requests_per_minute, limiter.burst)
       IN  \E answer \in {Answer(window, sum.value)}
                             \cup (IF sum.overflow THEN {"panic"} ELSE {}) :
               limiter' =
                   [limiter EXCEPT
                       !.now = now,
                       !.calls = @ + 1,
                       !.windows[key] = IF answer = "accept"
                                        THEN Append(window, now)
                                        ELSE window,
                       !.accepted[key] = IF answer = "accept"
                                         THEN Append(@, now)
                                         ELSE @,
                       !.last = [key |-> key, answer |-> answer,
                                 seen |-> limiter.accepted[key],
                                 before |-> limiter.windows]]
    /\ UNCHANGED <<mgrVars, flowVars, wrapVars, toolVars, modelVars, procVars,
                   usageVars, dbDown, persisted, draining, gateway, client,
                   readers, plan>>

NextLimiter == \E key \in ApiKeys, d \in Steps : Check(key, d)

SpecLimiter == InitLimiter /\ [][NextLimiter]_vars

(***************************************************************************)
(* Claims about the session table, checked under SpecMgr                   *)
(***************************************************************************)
\* C1: when create_session calls do not overlap and use distinct keys, a
\* create_session that finds exactly max_concurrent sessions tracked fails
\* with the capacity error and leaves the table alone, one that finds fewer
\* goes on to spawn and its insert adds one entry and returns Ok, a removal by
\* stop_session or session_finished takes one entry away, and so the table
\* never holds more than max_concurrent sessions.
C1_SessionCeiling ==
    /\ []((~overlapped /\ ~collided) => ActiveCount <= max_concurrent)
    /\ [][\A r \in Callers :
            /\ (\E s \in ClientIds : CreateCheck(r, s)) /\ ~overlapped' /\ ~collided
                 => IF ActiveCount >= max_concurrent
                    THEN /\ pc'[r] = "done"
                         /\ result'[r] = "ServiceUnavailable:capacity"
                         /\ active' = active
                         /\ nextPid' = nextPid
                    ELSE pc'[r] = "create_spawn"
            /\ CreateInsert(r) /\ ~overlapped /\ ~collided'
                 => /\ result'[r] = "Ok"
                    /\ ActiveCount' = ActiveCount + 1
            /\ (\E k \in Keys : (StopRemove(r, k) \/ FinishRemove(r, k))
                                  /\ active[k] # 0)
                 => ActiveCount' = ActiveCount - 1
       ]_vars

\* C1 witness: with no overlap and no key collision, one caller was refused at
\* the ceiling, an entry was then removed, and a further create_session
\* succeeded, filling the table to the ceiling again.
C1_Witness ==
    /\ ~overlapped /\ ~collided
    /\ \E q \in Callers : pc[q] = "done" /\ result[q] = "ServiceUnavailable:capacity"
    /\ \E r \in Callers : pc[r] = "done" /\ result[r] = "Ok"
    /\ killed \cup reaped # {}
    /\ nextPid = max_concurrent + 2
    /\ ActiveCount = max_concurrent

\* C8: stop_session(id) on a tracked id removes exactly that entry and then
\* kills the process it held; on an untracked id it changes no entry and
\* kills and reaps nothing; in both cases id is untracked afterwards (a second
\* call is the no-op) and the operation reports "stopped".
C8_StopSession ==
    [][\A r \in Callers :
         /\ \A k \in Keys :
              StopRemove(r, k) =>
                /\ active'[k] = 0
                /\ \A j \in Keys \ {k} : active'[j] = active[j]
                /\ IF active[k] # 0
                   THEN /\ pc'[r] = "stop_kill"
                        /\ held'[r] = active[k]
                   ELSE /\ pc'[r] = "done"
                        /\ result'[r] = "stopped"
                        /\ UNCHANGED <<active, killed, reaped, exited>>
         /\ StopKill(r) =>
                /\ killed' = killed \cup {held[r]}
                /\ held[r] \in exited'
                /\ active' = active
                /\ pc'[r] = "done"
                /\ result'[r] = "stopped"
      ]_vars

\* C8 witness: two stop_session calls have returned "stopped" although only
\* one process was ever inserted and killed: the other call found its id
\* untracked and did nothing.
C8_Witness ==
    /\ Cardinality(killed) = 1
    /\ inserted = killed
    /\ reaped = {}
    /\ ActiveCount = 0
    /\ \A r \in Callers : pc[r] = "done" /\ result[r] = "stopped"

Removing == {held[r] : r \in {q \in Callers : pc[q] \in {"stop_kill", "finish_reap"}}}

\* C9: every process inserted into the table gets exactly one of kill and
\* reap: never both, and once it is out of the table it has been killed or
\* reaped (or the stop_session / session_finished that took it out is about
\* to do so).
C9_ExactlyOneKillOrReap ==
    \A p \in inserted :
        /\ ~(p \in killed /\ p \in reaped)
        /\ p \notin TrackedPids => p \in killed \cup reaped \cup Removing

\* C10: each live session (inserted, not taken out by stop_session,
\* session_finished or cleanup_all) is in the table under exactly one key,
\* its native session id if spawn returned one and else its client id.
C10_OneKeyPerLiveSession ==
    \A p \in inserted \ removed :
        /\ Cardinality({k \in Keys : active[k] = p}) = 1
        /\ active[IF procNative[p] # None THEN procNative[p] ELSE procClient[p]] = p

\* C28: the ceiling is soft under concurrency: a state in which the table
\* holds more sessions than max_concurrent is reachable (the witness), and it
\* is reached only when create_session calls overlapped, one passing its
\* check while another had passed its own and had not yet inserted.
C28_SoftCeiling ==
    ActiveCount > max_concurrent => overlapped

\* C28 witness: two create_session calls both passed the check before either
\* inserted, both returned Ok, and the table holds one session more than the
\* ceiling allows.
C28_Witness ==
    /\ ActiveCount = max_concurrent + 1
    /\ overlapped
    /\ ~collided
    /\ \A r \in Callers : pc[r] = "done" /\ result[r] = "Ok"
    /\ killed \cup reaped \cup exited = {}

\* create_session calls that have passed the capacity check and have not
\* yet inserted or failed
PassedCheck == {r \in Callers : InCreate(r)}

\* C36: with the K callers of the model, so at most K create_session calls in
\* flight, and the ceiling N = max_concurrent, the table never holds more
\* than N + K - 1 sessions; indeed the tracked sessions and the calls that
\* have passed the check never number more than that together.
C36_HardBound ==
    /\ ActiveCount <= max_concurrent + Cardinality(Callers) - 1
    /\ ActiveCount + Cardinality(PassedCheck)
           <= max_concurrent + Cardinality(Callers) - 1

\* C36 witness: the table is at the ceiling and a call that passed its check
\* before is about to insert: the bound is attained
C36_Witness ==
    /\ ActiveCount >= max_concurrent
    /\ \E r \in Callers : pc[r] = "create_insert"
    /\ ActiveCount + Cardinality(PassedCheck)
           = max_concurrent + Cardinality(Callers) - 1

\* the key a process is inserted under
KeyOf(p) == EffectiveKey(procNative[p], procClient[p])

\* C35: create_session never replaces an entry that is still tracked, and a
\* stop_session or session_finished takes out the process of the completion
\* it was issued for: no other live process shares the key it was called
\* with, also when two requests carry the same client session id and the
\* backend supplies no native id.
C35_NoCrossCompletion ==
    [][\A r \in Callers :
          /\ (pc[r] = "create_insert" /\ pc'[r] = "done")
                 => active[KeyOf(held[r])] = 0
          /\ (pc[r] \in {"idle", "finish_wait"}
                 /\ pc'[r] \in {"stop_kill", "finish_reap"})
                 => \A q \in inserted \ removed :
                        KeyOf(q) = KeyOf(held'[r]) => q = held'[r]]_vars

\* C34: while one caller's session_finished awaits the reap of a process
\* that has not exited, or a stop_session awaits its kill, a caller that is
\* free can start create_session, stop_session and session_finished on the
\* table at once: it is not held up until that process has exited.
C34_SessionsIndependent ==
    \A r \in Callers :
        pc[r] \in {"finish_reap", "stop_kill"} /\ held[r] \notin exited =>
            \A q \in Callers \ {r} :
                pc[q] = "idle" =>
                    /\ ENABLED (\E s \in ClientIds : CreateCheck(q, s))
                    /\ ENABLED (\E k \in Keys : StopRemove(q, k))
                    /\ ENABLED (\E k \in Keys : FinishRemove(q, k))

\* C31: a step that changes the table is taken with no read guard out and
\* with the write guard free (the step takes it) or in the hands of the
\* cleanup_all that is draining; a capacity check or a reading operation
\* begins only with the write guard free; while the write guard is held
\* nobody holds a read guard; read guards may be held together (witness).
C31_MutualExclusion ==
    /\ [](writer # NoCaller => readers = {})
    /\ [][active' # active =>
             /\ readers = {}
             /\ readers' = {}
             /\ \/ writer = NoCaller
                \/ \E r \in Callers : writer = r /\ pc[r] = "cleanup_drain"]_vars
    /\ [][\A r \in Callers :
             (pc[r] = "idle" /\ (pc'[r] \in {"create_spawn", "reading"}
                                  \/ result'[r] = "ServiceUnavailable:capacity"))
                 => writer = NoCaller]_vars

\* C31 witness: two callers hold read guards of a table that is not empty
C31_Witness ==
    /\ Cardinality(readers) = 2
    /\ ActiveCount >= 1
    /\ writer = NoCaller

\* a step in which caller q reads or changes the table: it leaves the start
\* of an operation, its insert or its wait for the guard, other than to begin
\* that wait
Observes(q) ==
    /\ pc[q] \in {"idle", "create_insert", "finish_wait"}
    /\ pc'[q] # pc[q]
    /\ pc'[q] # "finish_wait"

\* C26: cleanup_all holds the write guard from its first step to its return;
\* while it runs no other caller reads or changes the table, so none sees it
\* partly drained; and when it returns the table is empty and kill has been
\* called on every process that was tracked when it took the guard.
C26_CleanupAll ==
    /\ [](\A r \in Callers : pc[r] = "cleanup_drain" => writer = r)
    /\ [][\A r \in Callers : pc[r] = "cleanup_drain" =>
             /\ \A q \in Callers \ {r} : ~Observes(q)
             /\ pc'[r] = "done" =>
                    /\ result'[r] = "cleaned"
                    /\ Tracked' = {}
                    /\ draining \subseteq killed']_vars

\* C26 witness: a cleanup_all that found two processes tracked has returned,
\* both are killed, and a session_finished that arrived meanwhile still waits
C26_Witness ==
    /\ \E r \in Callers : pc[r] = "done" /\ result[r] = "cleaned"
    /\ Cardinality(draining) >= 2
    /\ draining \subseteq killed
    /\ Tracked = {}
    /\ \E q \in Callers : pc[q] = "finish_wait"

\* C11: an entry does not stay in the table once the completion flow has
\* called session_finished for it: whenever session_finished(k) has been
\* called for a tracked key k, k is untracked at some later moment.
C11_EntryEventuallyRemoved ==
    \A r \in Callers, k \in Keys :
        (pc[r] = "finish_wait" /\ arg[r] = k /\ active[k] # 0) ~> (active[k] = 0)

\* the kind of an error create_session returns
ErrorKind(res) ==
    CASE res \in {"ServiceUnavailable:capacity", "ServiceUnavailable:spawn"}
             -> "ServiceUnavailable"
      [] res \in {"Internal:stdin", "Internal:stdout"} -> "Internal"
      [] OTHER -> "none"

\* C20: a create_session that fails leaves the table as it was and inserts
\* nothing; its error is of kind ServiceUnavailable when the ceiling is
\* reached or the process cannot be spawned, and of kind Internal when the
\* prompt cannot be written to stdin or stdout cannot be captured; at the
\* ceiling no process is spawned.
C20_CreateSessionFailure ==
    [][\A r \in Callers :
         /\ ((\E s \in ClientIds : CreateCheck(r, s)) /\ pc'[r] = "done") =>
                /\ ErrorKind(result'[r]) = "ServiceUnavailable"
                /\ ActiveCount >= max_concurrent
                /\ active' = active /\ inserted' = inserted
                /\ nextPid' = nextPid /\ held'[r] = 0
         /\ CreateSpawn(r, "spawn_failed", None) =>
                /\ ErrorKind(result'[r]) = "ServiceUnavailable"
                /\ pc'[r] = "done"
                /\ active' = active /\ inserted' = inserted
         /\ (CreateSpawn(r, "stdin_write_failed", None)
               \/ CreateSpawn(r, "stdout_not_captured", None)) =>
                /\ ErrorKind(result'[r]) = "Internal"
                /\ pc'[r] = "done"
                /\ active' = active /\ inserted' = inserted
      ]_vars

\* C20 witness: with one session tracked, a create_session that had passed
\* the check returned an Internal error and the session is still tracked,
\* alone.
C20_Witness ==
    /\ \E r \in Callers : pc[r] = "done" /\ ErrorKind(result[r]) = "Internal"
    /\ ActiveCount = 1
    /\ inserted = {1}
    /\ nextPid = 2
    /\ removed = {}

(***************************************************************************)
(* Claims about the completion flow, checked under SpecFlow, and about the *)
(* replay, checked under SpecWrap                                          *)
(***************************************************************************)
Chunk(e) == Get(e.data)

IsMarker(e) == e.done
IsRoleOpen(e) ==
    /\ ~e.done
    /\ Chunk(e).delta.role = Some("assistant")
    /\ Chunk(e).delta.tool_calls = Absent
    /\ Chunk(e).finish_reason = Absent
IsContentDelta(e) ==
    /\ ~e.done
    /\ Chunk(e).delta.role = Absent
    /\ IsSome(Chunk(e).delta.content)
    /\ Chunk(e).delta.tool_calls = Absent
    /\ Chunk(e).finish_reason = Absent
IsToolCallDelta(e) ==
    /\ ~e.done
    /\ Chunk(e).delta.role = Absent
    /\ Chunk(e).delta.content = Absent
    /\ IsSome(Chunk(e).delta.tool_calls)
    /\ Len(Get(Chunk(e).delta.tool_calls)) = 1
    /\ Chunk(e).finish_reason = Absent
IsTerminal(e) ==
    /\ ~e.done
    /\ Chunk(e).delta = [role |-> Absent, content |-> Absent, tool_calls |-> Absent]
    /\ IsSome(Chunk(e).finish_reason)

\* role-open, content deltas, one terminal chunk, one marker, nothing after
LiveComplete(q) ==
    /\ Len(q) >= 3
    /\ IsRoleOpen(q[1])
    /\ \A i \in 2..(Len(q) - 2) : IsContentDelta(q[i])
    /\ IsTerminal(q[Len(q) - 1])
    /\ IsMarker(q[Len(q)])

\* a sequence that can still grow into a complete one
LivePrefix(q) ==
    \/ q = <<>>
    \/ /\ IsRoleOpen(q[1])
       /\ \A i \in 2..Len(q) : IsContentDelta(q[i])
    \/ /\ Len(q) >= 2
       /\ IsRoleOpen(q[1])
       /\ \A i \in 2..(Len(q) - 1) : IsContentDelta(q[i])
       /\ IsTerminal(q[Len(q)])
    \/ LiveComplete(q)

RECURSIVE BeforeResult(_)
BeforeResult(evs) ==
    IF evs = <<>> \/ evs[1].type = Some("result") THEN <<>>
    ELSE <<evs[1]>> \o BeforeResult(Tail(evs))

\* the extractable texts of the assistant events of evs, in order
RECURSIVE AssistantTexts(_)
AssistantTexts(evs) ==
    IF evs = <<>> THEN <<>>
    ELSE (IF /\ evs[1].type = Some("assistant")
             /\ IsSome(evs[1].content)
             /\ IsSome(extract_assistant_content(evs[1]))
          THEN <<Get(extract_assistant_content(evs[1]))>> ELSE <<>>)
         \o AssistantTexts(Tail(evs))

RECURSIVE DeltaTexts(_)
DeltaTexts(q) ==
    IF q = <<>> THEN <<>>
    ELSE (IF IsContentDelta(q[1]) /\ ~IsRoleOpen(q[1])
          THEN <<Get(Chunk(q[1]).delta.content)>> ELSE <<>>)
         \o DeltaTexts(Tail(q))

LoopRunning == IF do_stream THEN tpc = "loop" ELSE fpc = "loop"

\* C3: in the event loop, streaming or buffered, the texts emitted as content
\* deltas (or accumulated in content_parts) are exactly the extractable texts
\* of the assistant events received before the first result event, one per
\* event and in order; a result event is the last event the loop receives,
\* the loop is over once it has been received, and the usage captured is that
\* event's.
C3_EventLoop ==
    fpc # "start" /\ shape # "error" =>
        /\ (IF do_stream THEN DeltaTexts(sent) ELSE content_parts)
               = AssistantTexts(BeforeResult(received))
        /\ \A i \in 1..Len(received) :
               received[i].type = Some("result") =>
                   /\ i = Len(received)
                   /\ ~LoopRunning
                   /\ usage = extract_usage(received[i])
        /\ (\A i \in 1..Len(received) : received[i].type # Some("result"))
               => usage = Absent

\* C3 witness: a buffered completion that accumulated a text, then received a
\* result event and stopped, leaving a later assistant event unread.
C3_Witness ==
    /\ ~do_stream
    /\ fpc = "responded"
    /\ shape = "json"
    /\ Len(received) >= 2
    /\ received[Len(received)].type = Some("result")
    /\ content_parts # <<>>
    /\ chan # <<>>
    /\ IsSome(EventText(chan[1]))

ToolsGiven == IsSome(Req.tools) /\ Len(Get(Req.tools)) > 0

\* C4: in a buffered response, if tools were requested and parse_tool_calls
\* accepted at least one call from the accumulated text, the message carries
\* those calls, no content, and finish_reason "tool_calls"; otherwise it
\* carries the text, no tool_calls, and finish_reason "stop". Never both.
C4_BufferedMessage ==
    shape \in {"json", "sse_replay"} =>
        LET choice == Get(response).choices[1]
            msg == choice.message
            parsed == parse_tool_calls(CompleteContent(content_parts))
        IN  /\ Len(Get(response).choices) = 1
            /\ ~(IsSome(msg.content) /\ IsSome(msg.tool_calls))
            /\ IF ToolsGiven /\ IsSome(parsed[1])
               THEN /\ msg.tool_calls = parsed[1]
                    /\ Len(Get(msg.tool_calls)) >= 1
                    /\ msg.content = Absent
                    /\ choice.finish_reason = Some("tool_calls")
               ELSE /\ msg.content = Some(CompleteContent(content_parts))
                    /\ msg.tool_calls = Absent
                    /\ choice.finish_reason = Some("stop")

\* C4 witness: tools were requested, the text held a well-formed block and
\* the response carries the decoded call.
C4_Witness ==
    /\ shape = "json"
    /\ ToolsGiven
    /\ IsSome(Get(response).choices[1].message.tool_calls)
    /\ Get(response).choices[1].message.content = Absent

\* C5: a completion is streamed live exactly when the request has stream =
\* true and no tool definitions (none, or an empty list); and when tool
\* definitions are present nothing reaches the client (no event, no response)
\* before the event loop has ended and the response is returned.
C5_LiveStreamingIff ==
    fpc # "start" /\ shape # "error" =>
        /\ (shape = "sse_live" \/ tpc # "none")
               <=> (Req.stream = Some(TRUE) /\ ~ToolsGiven)
        /\ ToolsGiven /\ fpc # "responded" => sent = <<>> /\ shape = "none"
        /\ ToolsGiven /\ fpc = "responded" => shape \in {"json", "sse_replay"}

\* C5 witness: stream = true with an empty tools list is streamed live and a
\* content delta is out while the loop is still running.
C5_Witness ==
    /\ Req.stream = Some(TRUE)
    /\ Req.tools = Some(<<>>)
    /\ shape = "sse_live"
    /\ tpc = "loop"
    /\ Len(sent) >= 2

\* C6: a successful completion is answered in stream shape (SSE events ending
\* with the marker) exactly when the client set stream = true, and as one
\* JSON object when stream is false or absent; with stream = true and tools
\* present the events are the replay of the finished response.
C6_StreamShapeIff ==
    fpc = "responded" /\ shape # "error" =>
        /\ shape \in {"sse_live", "sse_replay"} <=> Req.stream = Some(TRUE)
        /\ shape = "json" <=> Req.stream \in {Absent, Some(FALSE)}
        /\ shape = "json" => sent = <<>> /\ IsSome(response)
        /\ Req.stream = Some(TRUE) /\ ToolsGiven =>
              /\ shape = "sse_replay"
              /\ sent = wrap_response_as_sse(Get(response))
              /\ IsRoleOpen(sent[1])
              /\ IsTerminal(sent[Len(sent) - 1])
              /\ IsMarker(sent[Len(sent)])

\* C6 witness: stream = true with tools: the buffered response with a tool
\* call was replayed as SSE events.
C6_Witness ==
    /\ shape = "sse_replay"
    /\ Req.stream = Some(TRUE)
    /\ \E i \in 1..Len(sent) : IsToolCallDelta(sent[i])

\* C7: for a response with a choice, optional content and k >= 0 tool calls,
\* wrap_response_as_sse returns exactly: one role-open chunk; one content
\* chunk with the content iff content is present; k tool-call delta chunks
\* with indexes 0..k-1 carrying the calls in the response's order; one
\* terminal chunk with the response's finish_reason; the end marker.
C7_ReplayOrder ==
    IsSome(wrapEvents) /\ Get(wrapResp).choices # <<>> =>
        LET ev == Get(wrapEvents)
            choice == Get(wrapResp).choices[1]
            c == IF IsSome(choice.message.content) THEN 1 ELSE 0
            tcs == IF IsSome(choice.message.tool_calls)
                   THEN Get(choice.message.tool_calls) ELSE <<>>
            k == Len(tcs)
        IN  /\ Len(ev) = 1 + c + k + 2
            /\ IsRoleOpen(ev[1])
            /\ c = 1 => /\ IsContentDelta(ev[2])
                        /\ Chunk(ev[2]).delta.content = choice.message.content
            /\ \A i \in 1..k :
                 /\ IsToolCallDelta(ev[1 + c + i])
                 /\ LET d == Get(Chunk(ev[1 + c + i]).delta.tool_calls)[1]
                    IN  /\ d.index = i - 1
                        /\ d.id = tcs[i].id
                        /\ d.function = tcs[i].function
            /\ IsTerminal(ev[Len(ev) - 1])
            /\ IsSome(choice.finish_reason) =>
                   Chunk(ev[Len(ev) - 1]).finish_reason = choice.finish_reason
            /\ IsMarker(ev[Len(ev)])

\* C7 witness: a response without content and with two tool calls and
\* finish_reason "tool_calls" has been replayed.
C7_Witness ==
    /\ IsSome(wrapEvents)
    /\ Get(wrapResp).choices # <<>>
    /\ Get(wrapResp).choices[1].message.content = Absent
    /\ IsSome(Get(wrapResp).choices[1].message.tool_calls)
    /\ Len(Get(Get(wrapResp).choices[1].message.tool_calls)) = 2
    /\ Get(wrapResp).choices[1].finish_reason = Some("tool_calls")
    /\ Len(Get(wrapEvents)) = 5

\* C19: a request whose message list is empty or has no message of role
\* "user" is answered with a BadRequest error and nothing else happens for
\* it: no backend process, no entry in the session table, nothing sent; and
\* no other request is answered with BadRequest.
C19_BadRequest ==
    /\ (Req.messages = <<>> \/ "user" \notin {Req.messages[i] : i \in 1..Len(Req.messages)})
          => /\ backend = "none" /\ reader = "none" /\ chan = <<>>
             /\ entry = Absent /\ claude_session_id = Absent
             /\ sent = <<>> /\ tpc = "none"
             /\ fpc \in {"start", "responded"}
             /\ fpc = "responded" =>
                    /\ shape = "error"
                    /\ Get(response).error = Some("BadRequest")
    /\ (fpc = "responded" /\ shape = "error" /\ Get(response).error = Some("BadRequest"))
          => (Req.messages = <<>> \/ \A i \in 1..Len(Req.messages) : Req.messages[i] # "user")

\* C19 witness: a request with a system message only has been rejected.
C19_Witness ==
    /\ Req.messages = <<"system">>
    /\ fpc = "responded"
    /\ Get(response).error = Some("BadRequest")
    /\ backend = "none"
    /\ entry = Absent

\* C22: every successful completion response, in each of its three shapes
\* (single JSON object, live SSE stream, replayed SSE stream), has response
\* headers carrying both the resolved session identifier and the resolved
\* project identifier.
C22_ResponseHeaders ==
    shape \in {"json", "sse_live", "sse_replay"} =>
        /\ ResponseHeaders.x_session_id = Some(effective_session_id)
        /\ ResponseHeaders.x_project_id = Some(project_id)

\* the chunks of a live stream whose task is at position at and has taken
\* the events evs
LiveSent(at, evs) ==
    LET texts == AssistantTexts(evs)
    IN  (IF at = "role" THEN <<>> ELSE <<sse_event(initial_chunk)>>)
        \o [i \in 1..Len(texts) |-> sse_event(content_chunk(texts[i]))]
        \o (IF at \in {"marker", "finish", "reap", "end"}
            THEN <<sse_event(final_chunk("stop"))>> ELSE <<>>)
        \o (IF at \in {"finish", "reap", "end"} THEN <<sse_done>> ELSE <<>>)

\* C23: what the client sees of a completion (status, body or chunk sequence)
\* is the same whether every call to the persistence collaborator succeeds or
\* any of them fails: it is determined by the request, the events taken from
\* the backend and the position reached, whichever kinds of call fail, and no
\* completion whose session was created ends in an error.
C23_PersistenceSwallowed ==
    /\ persisted \cap dbDown = {}
    /\ backend = "none" => (shape \in {"none", "error"} /\ sent = <<>>)
    /\ backend # "none" =>
          IF do_stream
          THEN /\ shape = "sse_live"
               /\ response = Absent
               /\ sent = LiveSent(tpc, received)
          ELSE IF fpc = "responded"
          THEN /\ response = Some(BuildResponse(Req,
                                   AssistantTexts(BeforeResult(received)),
                                   LoopUsage(received, Absent),
                                   effective_session_id))
               /\ shape = IF wants_stream THEN "sse_replay" ELSE "json"
               /\ sent = IF wants_stream
                         THEN wrap_response_as_sse(Get(response)) ELSE <<>>
          ELSE /\ shape = "none"
               /\ response = Absent
               /\ sent = <<>>

\* C23 witness: every call to the persistence collaborator failed, nothing
\* was stored, and the buffered completion answered with its message, built
\* from a text and a result event with usage.
C23_Witness ==
    /\ dbDown = DbCalls
    /\ persisted = {}
    /\ fpc = "responded"
    /\ shape = "json"
    /\ IsSome(response)
    /\ ~IsSome(Get(response).error)
    /\ content_parts # <<>>
    /\ IsSome(usage)

\* C24: a completion that fails returns a single error object and never a
\* partial stream: an error response is produced with no chunk sent and no
\* streaming task started, and once a chunk has been sent the response keeps
\* its shape and the only steps left add chunks after those already sent.
C24_ErrorBeforeFirstChunk ==
    /\ [](shape = "error" =>
            /\ sent = <<>>
            /\ tpc = "none"
            /\ IsSome(response) /\ IsSome(Get(response).error))
    /\ [][sent # <<>> =>
            /\ shape' = shape
            /\ shape \in {"sse_live", "sse_replay"}
            /\ Len(sent') >= Len(sent)
            /\ SubSeq(sent', 1, Len(sent)) = sent]_vars

\* C24 witness: a request for a live stream was refused at the ceiling with
\* the error object, and nothing was sent.
C24_Witness ==
    /\ do_stream
    /\ fpc = "responded"
    /\ shape = "error"
    /\ Get(response).error = Some("ServiceUnavailable")
    /\ sent = <<>>
    /\ others = max_concurrent

\* C27: when the gateway has exited, every backend process still tracked in
\* the session table has been terminated.
C27_CleanupAtShutdown ==
    gateway = "exited" => ~(IsSome(entry) /\ backend = "running")

\* the completion is over: the streaming task has ended, or the buffered
\* handler has returned its response
CompletionOver == IF do_stream THEN tpc = "end" ELSE fpc = "responded"

LineEvents(line) ==
    CASE line.kind = "blank" -> <<>>
      [] line.kind = "json" -> <<Get(line.val)>>
      [] OTHER -> <<[type |-> Some("text"), sid |-> Absent, content |-> Absent,
                     usage |-> Absent, raw |-> Some(line.kind)]>>

RECURSIVE OutputEvents(_)
OutputEvents(ls) ==
    IF ls = <<>> THEN <<>> ELSE LineEvents(ls[1]) \o OutputEvents(Tail(ls))

\* a is b with some elements left out, the others in b's order
RECURSIVE IsSubseq(_, _)
IsSubseq(a, b) ==
    IF a = <<>> THEN TRUE
    ELSE IF b = <<>> THEN FALSE
    ELSE IF a[1] = b[1] THEN IsSubseq(Tail(a), Tail(b))
    ELSE IsSubseq(a, Tail(b))

InHand == IF IsSome(pending) THEN <<Get(pending)>> ELSE <<>>

\* C12: the events the consumer has received, followed by those queued for
\* it and the one the reader task is sending, are events of the lines the
\* backend wrote, each line used at most once and in the order written, the
\* first line (read during spawn) included.
C12_FifoOrder ==
    consumer # "none" =>
        IsSubseq(received \o chan \o InHand, OutputEvents(written))

\* C12 witness: the consumer has received the event of the first line, then a
\* synthetic text event, then a result event, as the backend wrote them.
C12_Witness ==
    /\ Len(received) = 3
    /\ received[1].type = Some("system")
    /\ IsSome(received[2].raw)
    /\ received[3].type = Some("result")
    /\ Len(written) = 3

\* C13 as stated: at most ChanCap events are queued, and while the channel is
\* full no line is read.
C13_NoReadWhileFull ==
    /\ [](Len(chan) <= ChanCap)
    /\ [][Len(chan) = ChanCap => written' = written]_vars

\* C13 amended: at most ChanCap events are queued; while the channel is full
\* the reader task reads on only up to its next non-blank line, holds that
\* line's event unsent, and from then on no line is read until the consumer
\* takes an event (or drops the stream).
C13_Backpressure ==
    /\ [](Len(chan) <= ChanCap)
    /\ [][(Len(chan) = ChanCap /\ IsSome(pending)) =>
              \/ written' = written /\ pending' = pending /\ Len(chan') = ChanCap
              \/ Len(chan') < ChanCap /\ written' = written
       ]_vars

\* C13 witness: the channel is full, the reader task has read one more line
\* and holds its event, the backend is still running and the consumer has
\* not taken anything yet.
C13_Witness ==
    /\ Len(chan) = ChanCap
    /\ IsSome(pending)
    /\ backend = "running"
    /\ consumer = "open"
    /\ Len(written) = ChanCap + 1

RECURSIVE CountRaw(_)
CountRaw(ls) ==
    IF ls = <<>> THEN 0
    ELSE (IF ls[1].kind = "raw" THEN 1 ELSE 0) + CountRaw(Tail(ls))

RECURSIVE CountSynthetic(_)
CountSynthetic(evs) ==
    IF evs = <<>> THEN 0
    ELSE (IF evs[1].type = Some("text") /\ IsSome(evs[1].raw) THEN 1 ELSE 0)
         + CountSynthetic(Tail(evs))

\* C14: while the consumer holds the stream, every non-blank line that did
\* not parse as JSON, the first line included, has its synthetic text event
\* received, queued or being sent, and so has every line after it: all the
\* events of the output are there, none dropped.
C14_NoLineDropped ==
    consumer = "open" =>
        /\ CountSynthetic(received \o chan \o InHand) = CountRaw(written)
        /\ received \o chan \o InHand = OutputEvents(written)

\* C15: the session id spawn returned is the session_id field of the first
\* line of the output that parsed as JSON, if it has one, and absent if that
\* line has none.
C15_NativeSessionId ==
    \A i \in 1..Len(written) :
        (/\ written[i].kind = "json"
         /\ \A j \in 1..(i - 1) : written[j].kind # "json")
            => claude_session_id = Get(written[i].val).sid

\* what holds of the reader task and a consumer that is gone, whichever
\* lines come: nothing is queued for it, a line is read only when no event
\* is waiting to be sent, the send of a waiting event fails and ends the
\* task, and a task that has ended reads nothing
GoneConsumer ==
    /\ [](consumer = "dropped" => chan = <<>>)
    /\ [][/\ (consumer = "dropped" /\ written' # written) => pending = Absent
          /\ (consumer = "dropped" /\ IsSome(pending) /\ pending' # pending)
                 => (reader' = "done" /\ pending' = Absent /\ written' = written)
          /\ reader = "done" => (written' = written /\ reader' = "done")
       ]_vars
    /\ (consumer = "dropped" /\ IsSome(pending)) ~> (reader = "done")

\* C29 as stated: once the consumer has dropped its end, the next line the
\* reader task reads is one it sends, the send fails and the task ends, so it
\* does not keep reading for a consumer that is gone.
C29_StopsAtNextLine ==
    /\ GoneConsumer
    /\ [][(consumer = "dropped" /\ written' # written) => IsSome(pending')]_vars

\* C29 amended: once the consumer has dropped its end, the reader task reads
\* on up to its next non-blank line (blank lines are read and skipped, with
\* no send), the send of that line's event fails, and the task ends without
\* reading or queueing anything more.
C29_StopsAtNextSend ==
    /\ GoneConsumer
    /\ [][(consumer = "dropped" /\ written' # written) =>
             IF ReaderEvents(written'[Len(written')]) = <<>>
             THEN pending' = Absent /\ reader' = reader
             ELSE IsSome(pending')]_vars

\* C29 witness: the consumer dropped the stream, the reader task then read a
\* blank line and went on, read a line that is not blank, failed to send its
\* event and ended, while the backend is still running.
C29_Witness ==
    /\ consumer = "dropped"
    /\ reader = "done"
    /\ backend = "running"
    /\ pending = Absent
    /\ chan = <<>>
    /\ Len(written) = 3
    /\ received = <<>>
    /\ written[2] = BlankLine
    /\ written[3] # BlankLine

(***************************************************************************)
(* Claims about parse_tool_calls, checked under SpecTools                  *)
(***************************************************************************)
RECURSIVE Only(_, _)
\* the pieces of ps that are in S, in order
Only(ps, S) ==
    IF ps = <<>> THEN <<>>
    ELSE (IF ps[1] \in S THEN <<ps[1]>> ELSE <<>>) \o Only(Tail(ps), S)

\* the name a well-formed block asks for
BlockName(b) == IF "JN" \in {b[i] : i \in 1..Len(b)} THEN "get_weather" ELSE "search"

ReturnedCalls == IF IsSome(Get(toolResult)[1]) THEN Get(Get(toolResult)[1]) ELSE <<>>
ReturnedText == Get(toolResult)[2]

C25_ModelResolution ==
    IsSome(modelResult) =>
        LET isAlias == \E i \in 1..Len(MODEL_ALIASES) : MODEL_ALIASES[i][1] = modelName
        IN  /\ \A i \in 1..Len(MODEL_ALIASES) :
                   MODEL_ALIASES[i][1] = modelName
                       => Get(modelResult) = MODEL_ALIASES[i][2]
            /\ StartsWith(modelName, ClaudePrefix) => Get(modelResult) = modelName
            /\ (~isAlias /\ ~StartsWith(modelName, ClaudePrefix))
                   => Get(modelResult) = Sonnet45

\* C25 witness: a name that starts with "claude-" and is no alias target has
\* been resolved to itself.
C25_Witness ==
    /\ IsSome(modelResult)
    /\ StartsWith(modelName, ClaudePrefix)
    /\ Len(modelName) > Len(ClaudePrefix)
    /\ Get(modelResult) = modelName
    /\ Get(modelResult) # Sonnet45

(***************************************************************************)
(* Claims about the usage of a buffered response, checked under SpecUsage  *)
(***************************************************************************)
\* the first result event of the events, if there is one
FirstResult(evs) ==
    LET rs == {i \in 1..Len(evs) : is_result_message(evs[i])}
    IN  IF rs = {} THEN Absent
        ELSE Some(evs[CHOOSE i \in rs : \A j \in rs : i <= j])

\* the value of a token field as a u64, 0 if it is absent
FieldValue(f) == IF IsSome(f) THEN Get(f) ELSE Zero64

\* the sum of two u64 values below 2^48, limb by limb
Sum64(a, b) ==
    LET l == a[3] + b[3]
        m == a[2] + b[2] + (IF l >= Limb THEN 1 ELSE 0)
        h == a[1] + b[1] + (IF m >= Limb THEN 1 ELSE 0)
    IN  <<h, m % Limb, l % Limb>>

\* C21: in a buffered response, prompt_tokens and completion_tokens equal the
\* input_tokens and output_tokens of the result event seen in the loop,
\* total_tokens is their sum, and all three are zero when the stream ended
\* without a result event carrying usage.
C21_BufferedUsage ==
    IsSome(usageResult) =>
        LET res == FirstResult(usageEvents)
            out == Get(usageResult).usage
        IN  /\ ~Get(usageResult).panic
            /\ IF IsSome(res) /\ IsSome(Get(res).usage)
               THEN LET i == FieldValue(Get(Get(res).usage).input_tokens)
                        o == FieldValue(Get(Get(res).usage).output_tokens)
                    IN  /\ <<0>> \o out.prompt_tokens = i
                        /\ <<0>> \o out.completion_tokens = o
                        /\ <<0>> \o out.total_tokens = Sum64(i, o)
               ELSE /\ out.prompt_tokens = Zero32
                    /\ out.completion_tokens = Zero32
                    /\ out.total_tokens = Zero32

\* C39: whatever unsigned 64-bit counts the result event reports, the
\* response is built, its prompt_tokens and completion_tokens are those
\* counts and its total_tokens is their sum: nothing is cut to 32 bits and
\* the addition does not overflow.
C39_NoTruncationNoOverflow ==
    \A res \in {FirstResult(usageEvents)} :
        (IsSome(usageResult) /\ IsSome(res) /\ IsSome(Get(res).usage)) =>
            LET i == FieldValue(Get(Get(res).usage).input_tokens)
                o == FieldValue(Get(Get(res).usage).output_tokens)
                out == Get(usageResult).usage
            IN  /\ ~Get(usageResult).panic
                /\ i = <<0>> \o out.prompt_tokens
                /\ o = <<0>> \o out.completion_tokens
                /\ Sum64(i, o) = <<0>> \o out.total_tokens

(***************************************************************************)
(* Claims about a consumer that reaps, checked under SpecProcReap          *)
(***************************************************************************)
\* C33: once the consumer has taken a result event and called
\* session_finished, the reap ends and the completion goes on to its
\* response, however many lines the backend writes after the result event.
C33_TerminatesAfterResult ==
    (release = "reaping") ~> (release = "reaped")

(***************************************************************************)
(* Claims about one turn of the event loop, checked under SpecEvents       *)
(***************************************************************************)
\* C32: an event gives a chunk or an accumulated text only if its type is
\* "assistant" and it has message.content, and ends the loop exactly if its
\* type is "result"; an assistant event without message.content and the
\* synthetic text event of a line that is not JSON give no chunk and no text
\* and do not end the loop.
C32_EventClassification ==
    IsSome(usageResult) =>
        LET msg == usageEvents[1]
            out == Get(usageResult)
        IN  /\ (IsSome(out.chunk) \/ IsSome(out.part)) =>
                   (msg.type = Some("assistant") /\ IsSome(msg.content))
            /\ out.breaks <=> msg.type = Some("result")
            /\ IsSome(out.usage) => msg.type = Some("result")
            /\ (msg.type = Some("assistant") /\ ~IsSome(msg.content)) =>
                   (out.chunk = Absent /\ out.part = Absent /\ ~out.breaks)
            /\ msg = SyntheticText(RawLine) =>
                   (out.chunk = Absent /\ out.part = Absent /\ ~out.breaks)

\* C32 witness: the loop has taken an event that is no assistant event and
\* has message.content with text in it, and gave nothing for it
C32_Witness ==
    /\ IsSome(usageResult)
    /\ usageEvents[1].type = Some("user")
    /\ usageEvents[1].content = Str(<<"h", "i">>)
    /\ Get(usageResult).chunk = Absent
    /\ Get(usageResult).part = Absent
    /\ ~Get(usageResult).breaks

(***************************************************************************)
(* Claims about the rate limiter, checked under SpecLimiter                *)
(***************************************************************************)
\* the requests among seen that were accepted in the 60 seconds before now
Recent(seen, now) ==
    Cardinality({i \in DOMAIN seen : now - seen[i] < WindowSecs * TicksPerSec})

\* n < requests_per_minute + burst, for n below 2^16
Fewer(n, rpm, burst) == rpm[1] > 0 \/ burst[1] > 0 \/ n < rpm[2] + burst[2]

\* C40: RateLimiter::check accepts a request of a key if and only if fewer
\* than requests_per_minute + burst requests of that key were accepted in the
\* 60 seconds before it; a request that is not accepted is not recorded, and
\* a check of one key leaves the windows of the other keys as they were.
C40_SlidingWindow ==
    limiter.calls > 0 =>
        LET last == limiter.last
        IN  /\ last.answer = "accept" <=>
                   Fewer(Recent(last.seen, limiter.now),
                         limiter.requests_per_minute, limiter.burst)
            /\ last.answer # "accept" =>
                   /\ limiter.accepted[last.key] = last.seen
                   /\ limiter.windows[last.key] =
                          Retain(last.before[last.key], limiter.now)
            /\ \A k \in ApiKeys \ {last.key} :
                   /\ limiter.windows[k] = last.before[k]
                   /\ Recent(limiter.accepted[k], limiter.now) <=
                          Len(limiter.windows[k])

(***************************************************************************)
(* Claims about the session id of a completion: SpecFlow, SpecMgr          *)
(***************************************************************************)
\* the session id the client is given: the X-Session-ID header of an SSE
\* response, the session_id field of a JSON body
ReportedId ==
    IF IsSome(ResponseHeaders.x_session_id)
    THEN ResponseHeaders.x_session_id
    ELSE IF IsSome(response) THEN Get(response).session_id ELSE Absent

\* Within one completion the session id reported to the client is the key
\* its process was inserted under; session_finished is called with that id,
\* so that it removes the entry when it is still tracked; and a stop request
\* with the reported id, made while the entry is tracked, removes it and
\* kills the process.
ReportedIdIsKey ==
    [][/\ (IsSome(entry') /\ IsSome(ReportedId')) => ReportedId' = entry'
       /\ (IsSome(entry) /\ release = "pending" /\ release' # "pending") =>
              (entry' = Absent /\ release' = "reaping")
       /\ (StopCompletion /\ IsSome(entry)) =>
              /\ IsSome(ReportedId) => ReportedId = entry
              /\ entry' = Absent
              /\ backend = "running" => backend' = "killed"]_vars

\* C37: the session id reported for a completion is the key its process was
\* inserted under (KeyOf), so a stop_session with that id, made while the id
\* is tracked, takes out and kills the process of that completion: every
\* process that was inserted under the id, has not been taken out by a
\* stop_session or session_finished and has not exited is the one killed.
C37_StopKillsThatSession ==
    [][\A r \in Callers :
          (pc[r] = "idle" /\ pc'[r] = "stop_kill") =>
              \A q \in inserted \ (removed \cup exited) :
                  KeyOf(q) = KeyOf(held'[r]) => q = held'[r]]_vars

(***************************************************************************)
(* Claims about a live stream whose client goes away: SpecLiveGone         *)
(***************************************************************************)
\* C38: once the client of a live stream is gone, the streaming task still
\* comes to call session_finished, and session_finished comes back: the
\* entry is taken out and the process is reaped.
C38_DisconnectedStreamEnds == (client = "gone") ~> (release = "reaped")

====
